---- MODULE Spec2Model ----
(***************************************************************************)
(* A model of the NetworkingNexus internal dashboard: the role-based       *)
(* assignment filter of the assign and edit pages, the task visibility     *)
(* filter of getTasks, and the task store operations of the data layer     *)
(* (addTask, updateTask, deleteTask, addComment) as they run, await by     *)
(* await, in concurrent browser sessions against one Firestore.            *)
(***************************************************************************)
EXTENDS Integers, Sequences, FiniteSets, TLC

VARIABLES
    \* ---- assign page / edit page (one mounted page component)
    currentUser,      \* useState<User | null>: the page's logged-in user
    users,            \* the list getUsers() handed to fetchData
    assignableUsers,  \* useState<User[]>([])
    page,             \* which page component is mounted and how far it got
    formAssigneeIds,  \* the form's assigneeIds field
    isSubmitting,     \* useState(false)
    submitted,        \* TRUE once onSubmit has called addTask
    \* ---- one getTasks(user) call
    taskDocs,         \* the documents of the "tasks" collection, in document order
    viewer,           \* the user getTasks is called for
    listed,           \* what the call returned: [ok, tasks], or null before it ran
    \* ---- the task list page showing what getTasks returned
    sortBy,           \* useState<SortOption>("recent")
    shown,            \* sortedTasks as last computed: [now, tasks], or null
    \* ---- the task store and the browser sessions working on it
    tasks,            \* Firestore collection "tasks": document id -> document, or null
    logs,             \* Firestore collection "logs", in the order the entries were added
    nextTaskId,       \* the ids doc(collection(db, "tasks")) has handed out so far, plus one
    nextCommentId,    \* the ids uuidv4() has handed out so far, plus one
    loggedInUserId,   \* per session: localStorage 'loggedInUserId'
    pageUser,         \* per session: the currentUser state of the open page
    pageTask,         \* per session: the task state of the open detail or edit page
    pageProgress,     \* per session: the progress state of the open detail page (the slider)
    call,             \* per session: the data-layer call the page is awaiting
    calls,            \* the number of data-layer calls started
    faults,           \* how many more calls to a collaborator may fail
    \* ---- getTask(id) calls against the store
    got,              \* the results of the calls since the store last changed
    \* ---- the two sendEmail implementations
    mailConfig,       \* which of the two providers the environment configures
    mailCalls,        \* the sendEmail calls made so far and how each ended
    \* ---- the user directory of one process
    userStore,        \* Firestore collection "users", in document order
    allUsersCache,    \* let allUsersCache: User[] | null
    userCall,         \* per caller: the getUsers or getUser call it is awaiting
    fetches           \* how often the collection was read and the cache assigned

pageVars == <<currentUser, users, assignableUsers, page, formAssigneeIds,
              isSubmitting, submitted>>

listVars == <<taskDocs, viewer, listed, sortBy, shown>>

storeVars == <<tasks, logs, nextTaskId, nextCommentId, loggedInUserId, pageUser,
               pageTask, pageProgress, call, calls, faults>>

readVars == <<got>>

mailVars == <<mailConfig, mailCalls>>

cacheVars == <<userStore, allUsersCache, userCall, fetches>>

vars == <<currentUser, users, assignableUsers, page, formAssigneeIds,
          isSubmitting, submitted, taskDocs, viewer, listed, sortBy, shown,
          tasks, logs, nextTaskId, nextCommentId, loggedInUserId, pageUser,
          pageTask, pageProgress, call, calls, faults, got, mailConfig, mailCalls,
          userStore, allUsersCache, userCall, fetches>>

(***************************************************************************)
(* Bounds                                                                  *)
(***************************************************************************)
MaxLevel == 5
MaxOthers == 2
MaxSelected == 1
MaxDocs == 2
MaxTime == 2
MaxTasks == 1
MaxCalls == 3
MaxFiles == 2
MaxFaults == 2
MaxReads == 2
MaxMails == 2

(***************************************************************************)
(* Values                                                                  *)
(***************************************************************************)
\* JavaScript null / a missing document
null == [null |-> TRUE]

Levels == 0..MaxLevel
\* the (domain, subdomain) pairs of the users; "undefined" stands for a User
\* without the optional subdomain field
Teams == {<<"Technical", "Development">>, <<"Technical", "undefined">>,
          <<"Corporate", "undefined">>}

\* The user whose session the page runs in has id 1; the others 2..MaxOthers+1
ActorId == 1
OtherIds == 2..(MaxOthers + 1)

UserRecords(ids) ==
    {[id |-> i, level |-> l, domain |-> t[1], subdomain |-> t[2]] :
        i \in ids, l \in Levels, t \in Teams}

RECURSIVE SeqOfOthers(_, _)
\* the user documents of the ids i..MaxOthers+1, in document order, given
\* which of them exist (pick: id -> a user record, or null when absent)
SeqOfOthers(pick, i) ==
    IF i > MaxOthers + 1 THEN <<>>
    ELSE (IF pick[i] = null THEN <<>> ELSE <<pick[i]>>) \o SeqOfOthers(pick, i + 1)

\* the toggle of a CommandItem: drop the id if selected, append it otherwise
Remove(ids, id) == SelectSeq(ids, LAMBDA x : x # id)
Includes(ids, id) == \E i \in 1..Len(ids) : ids[i] = id
Range(s) == {s[i] : i \in 1..Len(s)}

(***************************************************************************)
(* The assignable-user filter (assign page and edit page)                  *)
(***************************************************************************)
\* mutants of the filter, one per branch of the switch
assignFilter_keepSelf(user, us) ==
    CASE user.level \in {0, 1} -> us
      [] user.level = 2 -> SelectSeq(us, LAMBDA u : u.level >= 3)
      [] user.level = 3 -> SelectSeq(us, LAMBDA u : u.domain = user.domain /\ u.level > user.level)
      [] user.level = 4 -> SelectSeq(us, LAMBDA u : u.domain = user.domain
                                          /\ u.subdomain = user.subdomain /\ u.level > user.level)
      [] OTHER -> <<>>

assignFilter_execPeers(user, us) ==
    CASE user.level \in {0, 1} -> SelectSeq(us, LAMBDA u : u.id # user.id)
      [] user.level = 2 -> SelectSeq(us, LAMBDA u : u.level >= 2)
      [] user.level = 3 -> SelectSeq(us, LAMBDA u : u.domain = user.domain /\ u.level > user.level)
      [] user.level = 4 -> SelectSeq(us, LAMBDA u : u.domain = user.domain
                                          /\ u.subdomain = user.subdomain /\ u.level > user.level)
      [] OTHER -> <<>>

assignFilter_anyDomain(user, us) ==
    CASE user.level \in {0, 1} -> SelectSeq(us, LAMBDA u : u.id # user.id)
      [] user.level = 2 -> SelectSeq(us, LAMBDA u : u.level >= 3)
      [] user.level = 3 -> SelectSeq(us, LAMBDA u : u.level > user.level)
      [] user.level = 4 -> SelectSeq(us, LAMBDA u : u.domain = user.domain
                                          /\ u.subdomain = user.subdomain /\ u.level > user.level)
      [] OTHER -> <<>>

assignFilter_anySubdomain(user, us) ==
    CASE user.level \in {0, 1} -> SelectSeq(us, LAMBDA u : u.id # user.id)
      [] user.level = 2 -> SelectSeq(us, LAMBDA u : u.level >= 3)
      [] user.level = 3 -> SelectSeq(us, LAMBDA u : u.domain = user.domain /\ u.level > user.level)
      [] user.level = 4 -> SelectSeq(us, LAMBDA u : u.domain = user.domain /\ u.level > user.level)
      [] OTHER -> <<>>

assignFilter_membersAssign(user, us) ==
    CASE user.level \in {0, 1} -> SelectSeq(us, LAMBDA u : u.id # user.id)
      [] user.level = 2 -> SelectSeq(us, LAMBDA u : u.level >= 3)
      [] user.level = 3 -> SelectSeq(us, LAMBDA u : u.domain = user.domain /\ u.level > user.level)
      [] user.level = 4 -> SelectSeq(us, LAMBDA u : u.domain = user.domain
                                          /\ u.subdomain = user.subdomain /\ u.level > user.level)
      [] OTHER -> SelectSeq(us, LAMBDA u : u.domain = user.domain /\ u.subdomain = user.subdomain
                                          /\ u.level >= user.level)

assignFilter_directorPeers(user, us) ==
    CASE user.level \in {0, 1} -> SelectSeq(us, LAMBDA u : u.id # user.id)
      [] user.level = 2 -> SelectSeq(us, LAMBDA u : u.level >= 3)
      [] user.level = 3 -> SelectSeq(us, LAMBDA u : u.domain = user.domain /\ u.level >= user.level)
      [] user.level = 4 -> SelectSeq(us, LAMBDA u : u.domain = user.domain
                                          /\ u.subdomain = user.subdomain /\ u.level > user.level)
      [] OTHER -> <<>>

\* AssignTaskPage.fetchData: switch (user.level) { ... }
assignFilteredUsers(user, us) ==
    CASE user.level \in {0, 1} -> SelectSeq(us, LAMBDA u : u.id # user.id)
      [] user.level = 2 -> SelectSeq(us, LAMBDA u : u.level >= 3)
      [] user.level = 3 -> SelectSeq(us, LAMBDA u : u.domain = user.domain /\ u.level > user.level)
      [] user.level = 4 -> SelectSeq(us, LAMBDA u : u.domain = user.domain
                                          /\ u.subdomain = user.subdomain /\ u.level > user.level)
      [] OTHER -> <<>>

\* EditTaskPage.fetchData: the same switch, written out a second time
editFilteredUsers(user, us) ==
    CASE user.level \in {0, 1} -> SelectSeq(us, LAMBDA u : u.id # user.id)
      [] user.level = 2 -> SelectSeq(us, LAMBDA u : u.level >= 3)
      [] user.level = 3 -> SelectSeq(us, LAMBDA u : u.domain = user.domain /\ u.level > user.level)
      [] user.level = 4 -> SelectSeq(us, LAMBDA u : u.domain = user.domain
                                          /\ u.subdomain = user.subdomain /\ u.level > user.level)
      [] OTHER -> <<>>

\* <Button type="submit" disabled={isSubmitting || assignableUsers.length === 0}>
submitDisabled == isSubmitting \/ Len(assignableUsers) = 0

\* formSchema: assigneeIds: z.array(z.string()).min(1)
formValid(ids) == Len(ids) >= 1

\* CommandItem onSelect
onSelect(currentIds, id) ==
    IF Includes(currentIds, id) THEN Remove(currentIds, id) ELSE Append(currentIds, id)

(***************************************************************************)
(* The pages                                                               *)
(***************************************************************************)
\* the documents an edit page may find under its task id
FetchedTasks ==
    {null} \cup [assignerId : {ActorId, 2}, assigneeIds : {<<2>>}]

IdlePage ==
    /\ currentUser = null
    /\ users = <<>>
    /\ assignableUsers = <<>>
    /\ page = "none"
    /\ formAssigneeIds = <<>>
    /\ isSubmitting = FALSE
    /\ submitted = FALSE

IdleList ==
    /\ taskDocs = <<>>
    /\ viewer = null
    /\ listed = null
    /\ sortBy = "recent"
    /\ shown = null

IdleStore ==
    /\ tasks = <<>>
    /\ logs = <<>>
    /\ nextTaskId = 1
    /\ nextCommentId = 1
    /\ loggedInUserId = <<>>
    /\ pageUser = <<>>
    /\ pageTask = <<>>
    /\ pageProgress = <<>>
    /\ call = <<>>
    /\ calls = 0
    /\ faults = 0

IdleRead == got = <<>>

IdleMail ==
    /\ mailConfig = null
    /\ mailCalls = <<>>

IdleCache ==
    /\ userStore = <<>>
    /\ allUsersCache = null
    /\ userCall = <<>>
    /\ fetches = null

InitPage ==
    /\ IdleList
    /\ IdleStore
    /\ IdleRead
    /\ IdleMail
    /\ IdleCache
    /\ currentUser \in UserRecords({ActorId}) \cup {null}
    /\ \E pick \in [OtherIds -> UserRecords(OtherIds) \cup {null}], self \in BOOLEAN :
          /\ \A i \in OtherIds : pick[i] # null => pick[i].id = i
          /\ self => currentUser # null
          /\ users = (IF self THEN <<currentUser>> ELSE <<>>) \o SeqOfOthers(pick, 2)
    /\ assignableUsers = <<>>
    /\ page = "none"
    /\ formAssigneeIds = <<>>
    /\ isSubmitting = FALSE
    /\ submitted = FALSE

\* AssignTaskPage: useEffect(fetchData)
AssignFetchData ==
    /\ page = "none"
    /\ page' = "assign"
    /\ assignableUsers' = IF currentUser # null
                          THEN assignFilteredUsers(currentUser, users)
                          ELSE assignableUsers
    /\ UNCHANGED <<currentUser, users, formAssigneeIds, isSubmitting, submitted, listVars, storeVars, readVars, mailVars, cacheVars>>

\* EditTaskPage: useEffect(fetchData)
EditFetchData(fetchedTask) ==
    /\ page = "none"
    /\ IF fetchedTask = null \/ currentUser = null
          \/ currentUser.id # fetchedTask.assignerId
       THEN /\ page' = "notFound"
            /\ UNCHANGED <<assignableUsers, formAssigneeIds>>
       ELSE /\ page' = "edit"
            /\ formAssigneeIds' = fetchedTask.assigneeIds
            /\ assignableUsers' = editFilteredUsers(currentUser, users)
    /\ UNCHANGED <<currentUser, users, isSubmitting, submitted, listVars, storeVars, readVars, mailVars, cacheVars>>

\* either form: a click on a CommandItem of the assignee popover
OnSelect(i) ==
    /\ page \in {"assign", "edit"}
    /\ ~submitted
    /\ i \in 1..Len(assignableUsers)
    /\ Includes(formAssigneeIds, assignableUsers[i].id) \/ Len(formAssigneeIds) < MaxSelected
    /\ formAssigneeIds' = onSelect(formAssigneeIds, assignableUsers[i].id)
    /\ UNCHANGED <<currentUser, users, assignableUsers, page, isSubmitting, submitted, listVars, storeVars, readVars, mailVars, cacheVars>>

\* AssignTaskPage: form.handleSubmit(onSubmit) behind the submit button
AssignOnSubmit ==
    /\ page = "assign"
    /\ ~submitDisabled
    /\ formValid(formAssigneeIds)
    /\ currentUser # null
    /\ isSubmitting' = TRUE
    /\ submitted' = TRUE
    /\ UNCHANGED <<currentUser, users, assignableUsers, page, formAssigneeIds, listVars, storeVars, readVars, mailVars, cacheVars>>

NextPage ==
    \/ AssignFetchData
    \/ \E t \in FetchedTasks : EditFetchData(t)
    \/ \E i \in 1..(MaxOthers + 1) : OnSelect(i)
    \/ AssignOnSubmit

SpecPage == InitPage /\ [][NextPage]_vars

(***************************************************************************)
(* getTasks: the visibility filter and the default order                   *)
(***************************************************************************)
\* the ids the documents of a task collection refer to
ListUserIds == 1..2

\* the sequences over S without repetition, of length at most n
NoDupSeqs(S, n) ==
    {q \in UNION {[1..k -> S] : k \in 0..n} :
        \A i, j \in 1..Len(q) : i < j => q[i] # q[j]}

\* a task document as getTasks reads it; a document written outside addTask
\* may lack assigneeIds, which is why the code reads (task.assigneeIds || [])
TaskDocs(id) ==
    [id : {id}, assignerId : ListUserIds, createdAt : 1..MaxTime,
     assigneeIds : NoDupSeqs(ListUserIds, 2)]
    \cup [id : {id}, assignerId : ListUserIds, createdAt : 1..MaxTime]

\* (task.assigneeIds || [])
assigneeIdsOrEmpty(task) ==
    IF "assigneeIds" \in DOMAIN task THEN task.assigneeIds ELSE <<>>

\* (a, b) => new Date(b.createdAt).getTime() - new Date(a.createdAt).getTime()
compare(a, b) == b.createdAt - a.createdAt

RECURSIVE insertSorted(_, _)
\* x put into the sorted sequence s in front of the first element it has to
\* come before (Array.prototype.sort is stable)
insertSorted(s, x) ==
    IF s = <<>> THEN <<x>>
    ELSE IF compare(x, Head(s)) < 0 THEN <<x>> \o s
    ELSE <<Head(s)>> \o insertSorted(Tail(s), x)

RECURSIVE sort(_)
\* visibleTasks.sort(compare)
sort(s) ==
    IF s = <<>> THEN <<>>
    ELSE insertSorted(sort(SubSeq(s, 1, Len(s) - 1)), s[Len(s)])

\* mutant: the filter looks at the assigner only
visibleTo_assignerOnly(user, task) == task.assignerId = user.id

\* task.assignerId === user.id || (task.assigneeIds || []).includes(user.id)
visibleTo(user, task) ==
    task.assignerId = user.id \/ Includes(assigneeIdsOrEmpty(task), user.id)

\* mutant: only the president (level 0) sees every task
seesAll_presidentOnly(user) == user.level <= 0

\* if (user.level <= 1)
seesAll(user) == user.level <= 1

\* getTasks(user) when getDocs resolves with the documents allTasks
getTasks(user, allTasks) ==
    LET visibleTasks == IF seesAll(user) THEN allTasks
                        ELSE SelectSeq(allTasks, LAMBDA task : visibleTo(user, task))
    IN  sort(visibleTasks)

InitList ==
    /\ IdlePage
    /\ IdleStore
    /\ IdleRead
    /\ IdleMail
    /\ IdleCache
    /\ \E n \in 0..MaxDocs : taskDocs \in {d \in [1..n -> UNION {TaskDocs(i) : i \in 1..n}] :
                                            \A i \in 1..n : d[i].id = i}
    /\ viewer \in [id : ListUserIds, level : Levels]
    /\ listed = null
    /\ sortBy = "recent"
    /\ shown = null

\* getTasks(user): the try branch
GetTasks ==
    /\ listed = null
    /\ listed' = [ok |-> TRUE, threw |-> FALSE, tasks |-> getTasks(viewer, taskDocs)]
    /\ UNCHANGED <<taskDocs, viewer, sortBy, shown, pageVars, storeVars, readVars, mailVars, cacheVars>>

\* mutant: the error of the read is passed on to the caller
getTasksCaught_rethrown(user) == [ok |-> FALSE, threw |-> TRUE, tasks |-> <<>>]

\* catch (error) { console.error("Error fetching tasks: ", error); return []; }
getTasksCaught(user) == [ok |-> FALSE, threw |-> FALSE, tasks |-> <<>>]

\* getTasks(user): getDocs rejects, the catch branch returns []
GetTasksFails ==
    /\ listed = null
    /\ listed' = getTasksCaught(viewer)
    /\ UNCHANGED <<taskDocs, viewer, sortBy, shown, pageVars, storeVars, readVars, mailVars, cacheVars>>

\* the component that called getTasks unmounts; the next visit calls it again
Revisit ==
    /\ listed # null
    /\ listed' = null
    /\ UNCHANGED <<taskDocs, viewer, sortBy, shown, pageVars, storeVars, readVars, mailVars, cacheVars>>

NextList == GetTasks \/ GetTasksFails \/ Revisit

SpecList == InitList /\ [][NextList]_vars

(***************************************************************************)
(* The task store: addTask, updateTask, deleteTask, addComment             *)
(***************************************************************************)
\* the browser sessions (tabs) using the dashboard at the same time
Sessions == 1..2

\* localStorage.getItem('loggedInUserId') when nobody is logged in
NoId == 0

\* the "users" collection the sessions work with
MainUsers ==
    << [id |-> 1, level |-> 1, domain |-> "Corporate", subdomain |-> "undefined"],
       [id |-> 2, level |-> 3, domain |-> "Technical", subdomain |-> "undefined"],
       [id |-> 3, level |-> 4, domain |-> "Technical", subdomain |-> "Development"] >>

MainUserIds == {MainUsers[i].id : i \in 1..Len(MainUsers)}

Titles == {"a", "b"}
Descriptions == {"d"}
\* a comment's text, as the parts it is put together from
Texts == {<<"hi">>}
\* a Date, in milliseconds since the epoch
Deadlines == {7}
\* the attachments of the form: file names, in the order they were added
Files == {"f1.png", "f2.pdf"}
Attachments == UNION {[1..n -> Files] : n \in 0..MaxFiles}
\* slider positions (min 0, max 100, step 5): both ends and one in between
Progresses == {0, 50, 100}

TaskIds == 1..MaxTasks

Idle ==
    [op |-> "none", pc |-> "idle", taskId |-> 0, data |-> null, user |-> null,
     originalTask |-> null, updatedTask |-> null, comment |-> null,
     sent |-> <<>>, before |-> <<>>,
     thrown |-> "",               \* the message of an error thrown and caught inside
     error |-> "",                \* the message of the error the call threw
     wrote |-> FALSE,             \* the call has written to the tasks collection
     logged |-> 0,                \* the log entries the call has added
     logFailed |-> FALSE,         \* the call's addDoc to the logs was rejected
     uploads |-> <<>>,            \* the uploadFile calls made: [name, downloadURL]
     attachmentComments |-> <<>>, \* addTask's local attachmentComments
     failed |-> {}]               \* the recipients whose sendEmail was rejected

\* getUser(id): the user with this id in the (cached) user list, or null
getUser(id) ==
    IF \E i \in 1..Len(MainUsers) : MainUsers[i].id = id
    THEN MainUsers[CHOOSE i \in 1..Len(MainUsers) : MainUsers[i].id = id]
    ELSE null

\* getLoggedInUser() in session s
getLoggedInUser(s) ==
    IF loggedInUserId[s] = NoId THEN null ELSE getUser(loggedInUserId[s])

\* getTask(id): docSnap.exists() ? { id, ...data } : null
getTask(id) == tasks[id]

\* mutant: the update replaces the document, the comments are not kept
merged_replaced(task, data) ==
    [f \in DOMAIN task \cup DOMAIN data |->
        IF f \in DOMAIN data THEN data[f] ELSE IF f = "comments" THEN <<>> ELSE task[f]]

\* updateDoc(ref, data) on an existing document: the fields of data replace
\* those of the document, the others stay
merged(task, data) ==
    [f \in DOMAIN task \cup DOMAIN data |-> IF f \in DOMAIN data THEN data[f] ELSE task[f]]

\* mutant: the comments field is written as the new items alone
arrayUnion_overwrite(stored, items) == items

\* arrayUnion(...items) applied to a stored array: the items not yet in it
\* are appended
arrayUnion(stored, items) ==
    stored \o SelectSeq(items, LAMBDA x : ~Includes(stored, x))

\* `${action} task`
actionText(action) ==
    CASE action = "created" -> "created task"
      [] action = "updated" -> "updated task"
      [] action = "deleted" -> "deleted task"
      [] action = "commented on" -> "commented on task"

\* createLog(user, action, task): the entry addDoc appends
logEntry(user, action, task) ==
    [userId |-> user.id, action |-> actionText(action), taskId |-> task.id,
     taskTitle |-> task.title]

\* mutant: the test for 100 is missing
newStatus_neverCompleted(progress) ==
    IF progress > 0 THEN "In Progress" ELSE "To Do"

\* progress === 100 ? 'Completed' : progress > 0 ? 'In Progress' : 'To Do'
newStatus(progress) ==
    IF progress = 100 THEN "Completed" ELSE IF progress > 0 THEN "In Progress" ELSE "To Do"

RECURSIVE Toggled(_, _, _)
\* the values the assigneeIds field can take after at most n clicks on the
\* CommandItems of the assignable users, starting from the values in from
Toggled(from, assignable, n) ==
    IF n = 0 THEN from
    ELSE Toggled(from \cup {onSelect(q, assignable[i].id) : q \in from, i \in 1..Len(assignable)},
                 assignable, n - 1)

\* the assigneeIds a form can submit: reachable by clicks and valid
FormAssigneeIds(initial, assignable) ==
    {q \in Toggled({initial}, assignable, 2 * Len(assignable)) : formValid(q)}

\* mutant: every assignee of the update is notified
newAssignees_all(originalTask, data) == data.assigneeIds

\* data.assigneeIds.filter(id => !originalAssignees.has(id))
newAssignees(originalTask, data) ==
    LET originalAssignees == Range(assigneeIdsOrEmpty(originalTask))
    IN  SelectSeq(data.assigneeIds, LAMBDA id : id \notin originalAssignees)

\* for (const assignee of assignees) { if (!assignee) continue; sendEmail(...) }
notified(ids) == SelectSeq(ids, LAMBDA id : getUser(id) # null)

\* date.toISOString(): the string that denotes the same instant
toISOString(date) == [iso |-> date]

\* new Date(str).getTime()
parseDate(str) == str.iso

\* getDownloadURL of the object uploadFile stored for the task
downloadURL(taskId, fileName) == [url |-> <<"tasks", taskId, fileName>>]

\* `File uploaded: ${attachment.name}`
fileMarker(fileName) == <<"File uploaded: ", fileName>>

\* what uploadFile(...) can end in: a download URL, or a thrown error
UploadOutcomes(taskId, fileName) ==
    {[threw |-> FALSE, downloadURL |-> downloadURL(taskId, fileName)],
     [threw |-> TRUE, downloadURL |-> null]}

\* mutant: a failed upload is not caught
afterUpload_uncaught(attachmentComments, user, id, fileName, outcome) ==
    IF outcome.threw
    THEN [attachmentComments |-> attachmentComments, aborted |-> TRUE]
    ELSE [attachmentComments |->
              Append(attachmentComments,
                     [id |-> id, userId |-> user.id, text |-> fileMarker(fileName),
                      fileURL |-> outcome.downloadURL]),
          aborted |-> FALSE]

\* one round of the loop over taskData.attachments: try { result = await
\* uploadFile(...); if (result.downloadURL) attachmentComments.push(...) }
\* catch { console.error; toast }
afterUpload(attachmentComments, user, id, fileName, outcome) ==
    IF outcome.threw
    THEN [attachmentComments |-> attachmentComments, aborted |-> FALSE]
    ELSE IF outcome.downloadURL # null
    THEN [attachmentComments |->
              Append(attachmentComments,
                     [id |-> id, userId |-> user.id, text |-> fileMarker(fileName),
                      fileURL |-> outcome.downloadURL]),
          aborted |-> FALSE]
    ELSE [attachmentComments |-> attachmentComments, aborted |-> FALSE]

RECURSIVE sendAll_abort(_, _)
\* mutant: the first rejected sendEmail ends the loop and the call
sendAll_abort(recipients, failing) ==
    IF recipients = <<>> THEN [attempted |-> <<>>, threw |-> FALSE]
    ELSE IF Head(recipients) \in failing
    THEN [attempted |-> <<Head(recipients)>>, threw |-> TRUE]
    ELSE LET rest == sendAll_abort(Tail(recipients), failing)
         IN  [attempted |-> <<Head(recipients)>> \o rest.attempted, threw |-> rest.threw]

RECURSIVE sendAll(_, _)
\* for (const assignee of assignees) { try { await sendEmail(...) } catch
\* (emailError) { console.error(...) } }: the recipients a sendEmail was
\* attempted for, and whether the loop threw, when sendEmail is rejected
\* for the recipients in failing
sendAll(recipients, failing) ==
    IF recipients = <<>> THEN [attempted |-> <<>>, threw |-> FALSE]
    ELSE LET rest == sendAll(Tail(recipients), failing)
         IN  [attempted |-> <<Head(recipients)>> \o rest.attempted, threw |-> rest.threw]

\* the sets of recipients whose delivery may fail with the faults left
Failing(recipients) ==
    {f \in SUBSET Range(recipients) : Cardinality(f) <= faults}

InitStore ==
    /\ IdlePage
    /\ IdleList
    /\ IdleRead
    /\ IdleMail
    /\ IdleCache
    /\ tasks = [id \in TaskIds |-> null]
    /\ logs = <<>>
    /\ nextTaskId = 1
    /\ nextCommentId = 1
    /\ loggedInUserId \in [Sessions -> MainUserIds \cup {NoId}]
    /\ pageUser = [s \in Sessions |-> getLoggedInUser(s)]
    /\ pageTask = [s \in Sessions |-> null]
    /\ pageProgress = [s \in Sessions |-> 0]
    /\ call = [s \in Sessions |-> Idle]
    /\ calls = 0
    /\ faults = 0

\* session s awaits no call
Free(s) == call[s].pc \in {"idle", "returned", "threw"}

CanStart(s) == Free(s) /\ calls < MaxCalls

\* mutant: without a logged-in user the call returns without an error
Begin_silent(s, op, id, data, first) ==
    LET user == getLoggedInUser(s)
    IN  /\ call' = [call EXCEPT ![s] =
                      [Idle EXCEPT !.op = op, !.taskId = id, !.data = data, !.user = user,
                                   !.pc = IF user = null THEN "returned" ELSE first]]
        /\ calls' = calls + 1

\* the first statements of every mutation: getLoggedInUser(), throw if null
Begin(s, op, id, data, first) ==
    LET user == getLoggedInUser(s)
    IN  /\ call' = [call EXCEPT ![s] =
                      [Idle EXCEPT !.op = op, !.taskId = id, !.data = data, !.user = user,
                                   !.pc = IF user = null THEN "threw" ELSE first,
                                   !.error = IF user # null THEN ""
                                             ELSE IF op \in {"addTask", "addComment"}
                                             THEN "User not logged in"
                                             ELSE "User not authenticated."]]
        /\ calls' = calls + 1

\* useState(0), then setProgress(fetchedTask.progress || 0) if the task exists
fetchedProgress(fetchedTask) == IF fetchedTask = null THEN 0 ELSE fetchedTask.progress

\* TaskDetailPage.fetchTaskData / EditTaskPage.fetchData: getTask(id), setTask,
\* setCurrentUser(getLoggedInUser())
OpenTask(s, id) ==
    /\ Free(s)
    /\ id < nextTaskId
    /\ pageTask[s] # getTask(id) \/ pageProgress[s] # fetchedProgress(getTask(id))
    /\ pageTask' = [pageTask EXCEPT ![s] = getTask(id)]
    /\ pageProgress' = [pageProgress EXCEPT ![s] = fetchedProgress(getTask(id))]
    /\ pageUser' = [pageUser EXCEPT ![s] = getLoggedInUser(s)]
    /\ UNCHANGED <<tasks, logs, nextTaskId, nextCommentId, loggedInUserId, call, calls,
                   faults, pageVars, listVars, readVars, mailVars, cacheVars>>

\* handleLogout in another tab of the same browser: the item is removed from
\* the localStorage the open page shares, the page's state stays
Logout(s) ==
    /\ CanStart(s)
    /\ loggedInUserId[s] # NoId
    /\ loggedInUserId' = [loggedInUserId EXCEPT ![s] = NoId]
    /\ UNCHANGED <<tasks, logs, nextTaskId, nextCommentId, pageUser, pageTask, pageProgress, call, calls,
                   faults, pageVars, listVars, readVars, mailVars, cacheVars>>

\* LoginPage.handleLogin: localStorage.setItem('loggedInUserId', user.id) and
\* router.push('/dashboard'), so the pages open before are gone
Login(s, id) ==
    /\ CanStart(s)
    /\ loggedInUserId[s] = NoId
    /\ getUser(id) # null
    /\ loggedInUserId' = [loggedInUserId EXCEPT ![s] = id]
    /\ pageUser' = [pageUser EXCEPT ![s] = getUser(id)]
    /\ pageTask' = [pageTask EXCEPT ![s] = null]
    /\ pageProgress' = [pageProgress EXCEPT ![s] = 0]
    /\ UNCHANGED <<tasks, logs, nextTaskId, nextCommentId, call, calls,
                   faults, pageVars, listVars, readVars, mailVars, cacheVars>>

\* LoginPage.handleLogin in another tab of the same browser:
\* localStorage.setItem('loggedInUserId', user.id) in the localStorage the
\* open page shares; the page's task and currentUser states stay
LoginOtherTab(s, id) ==
    /\ CanStart(s)
    /\ loggedInUserId[s] = NoId
    /\ getUser(id) # null
    /\ pageTask[s] # null
    /\ loggedInUserId' = [loggedInUserId EXCEPT ![s] = id]
    /\ UNCHANGED <<tasks, logs, nextTaskId, nextCommentId, pageUser, pageTask, pageProgress,
                   call, calls, faults, pageVars, listVars, readVars, mailVars, cacheVars>>

\* ---- addTask(taskData), called by AssignTaskPage.onSubmit
AddTaskStart(s, title, assigneeIds, attachments) ==
    /\ CanStart(s)
    /\ nextTaskId + Cardinality({r \in Sessions : call[r].pc = "setDoc"}) <= MaxTasks
    /\ pageUser[s] # null
    /\ assigneeIds \in FormAssigneeIds(<<>>, assignFilteredUsers(pageUser[s], MainUsers))
    /\ \E description \in Descriptions, deadline \in Deadlines :
          Begin(s, "addTask", 0,
                [title |-> title, description |-> description,
                 assigneeIds |-> assigneeIds, deadline |-> deadline,
                 attachments |-> attachments, assignerId |-> pageUser[s].id],
                "setDoc")
    /\ UNCHANGED <<tasks, logs, nextTaskId, nextCommentId, loggedInUserId, pageUser,
                   pageTask, pageProgress, faults, pageVars, listVars, readVars, mailVars, cacheVars>>

\* mutant: the description is stored in place of the title
newTask_titleLost(taskData) ==
    [title |-> taskData.description,
     description |-> taskData.description,
     assignerId |-> taskData.assignerId,
     assigneeIds |-> taskData.assigneeIds,
     deadline |-> toISOString(taskData.deadline),
     comments |-> <<>>,
     progress |-> 0,
     status |-> "To Do"]

\* const newTask: Omit<Task, 'id'> = { ... }
newTask(taskData) ==
    [title |-> taskData.title,
     description |-> taskData.description,
     assignerId |-> taskData.assignerId,
     assigneeIds |-> taskData.assigneeIds,
     deadline |-> toISOString(taskData.deadline),
     comments |-> <<>>,
     progress |-> 0,
     status |-> "To Do"]

\* { id: docSnap.id, ...docSnap.data() }
withId(id, data) ==
    [f \in {"id"} \cup DOMAIN data |-> IF f = "id" THEN id ELSE data[f]]

\* const newTaskRef = doc(collection(db, "tasks")); await setDoc(newTaskRef, newTask);
\* then the upload loop if there are attachments
AddTaskSetDoc(s) ==
    /\ call[s].op = "addTask" /\ call[s].pc = "setDoc"
    /\ LET newTaskId == nextTaskId
       IN  /\ tasks' = [tasks EXCEPT ![newTaskId] = withId(newTaskId, newTask(call[s].data))]
           /\ nextTaskId' = nextTaskId + 1
           /\ call' = [call EXCEPT ![s].taskId = newTaskId,
                                   ![s].wrote = TRUE,
                                   ![s].pc = IF Len(call[s].data.attachments) > 0
                                             THEN "upload" ELSE "getTask"]
    /\ UNCHANGED <<logs, nextCommentId, loggedInUserId, pageUser, pageTask, pageProgress, calls, faults,
                   pageVars, listVars, readVars, mailVars, cacheVars>>

\* one round of for (const attachment of taskData.attachments)
AddTaskUpload(s) ==
    /\ call[s].op = "addTask" /\ call[s].pc = "upload"
    /\ LET attachment == call[s].data.attachments[Len(call[s].uploads) + 1]
           last == Len(call[s].uploads) + 1 = Len(call[s].data.attachments)
       IN  \E outcome \in UploadOutcomes(call[s].taskId, attachment) :
              /\ outcome.threw => faults > 0
              /\ faults' = IF outcome.threw THEN faults - 1 ELSE faults
              /\ LET after == afterUpload(call[s].attachmentComments, call[s].user,
                                          nextCommentId, attachment, outcome)
                 IN  /\ call' = [call EXCEPT
                           ![s].uploads = Append(@, [name |-> attachment,
                                                     downloadURL |-> outcome.downloadURL]),
                           ![s].attachmentComments = after.attachmentComments,
                           ![s].error = IF after.aborted THEN "Failed to upload file" ELSE @,
                           ![s].pc = IF after.aborted THEN "threw"
                                     ELSE IF ~last THEN "upload"
                                     ELSE IF Len(after.attachmentComments) > 0 THEN "attach"
                                     ELSE "getTask"]
                     /\ nextCommentId' = IF after.attachmentComments # call[s].attachmentComments
                                         THEN nextCommentId + 1 ELSE nextCommentId
    /\ UNCHANGED <<tasks, logs, nextTaskId, loggedInUserId, pageUser, pageTask, pageProgress, calls,
                   pageVars, listVars, readVars, mailVars, cacheVars>>

\* await updateDoc(newTaskRef, { comments: arrayUnion(...attachmentComments) })
AddTaskAttach(s) ==
    /\ call[s].op = "addTask" /\ call[s].pc = "attach"
    /\ LET id == call[s].taskId
       IN  IF tasks[id] = null
           THEN /\ call' = [call EXCEPT ![s].pc = "threw", ![s].error = "No document to update"]
                /\ UNCHANGED tasks
           ELSE /\ tasks' = [tasks EXCEPT ![id].comments =
                                arrayUnion(tasks[id].comments, call[s].attachmentComments)]
                /\ call' = [call EXCEPT ![s].pc = "getTask"]
    /\ UNCHANGED <<logs, nextTaskId, nextCommentId, loggedInUserId, pageUser, pageTask, pageProgress, calls,
                   faults, pageVars, listVars, readVars, mailVars, cacheVars>>

\* const createdTask = await getTask(newTaskId)
AddTaskGetTask(s) ==
    /\ call[s].op = "addTask" /\ call[s].pc = "getTask"
    /\ LET createdTask == getTask(call[s].taskId)
       IN  call' = [call EXCEPT ![s].updatedTask = createdTask,
                                ![s].pc = IF createdTask # null THEN "createLog" ELSE "returned"]
    /\ UNCHANGED <<tasks, logs, nextTaskId, nextCommentId, loggedInUserId, pageUser,
                   pageTask, pageProgress, calls, faults, pageVars, listVars, readVars, mailVars, cacheVars>>

\* createLog(user, action, task) as awaited by session s: nothing is done
\* without a task or a user; else await addDoc(logsCollection, {...}) adds the
\* entry and the call goes on at pc next, or addDoc is rejected and the call
\* throws error
CreateLog(s, action, task, next, error) ==
    IF task = null \/ call[s].user = null
    THEN /\ call' = [call EXCEPT ![s].pc = next]
         /\ UNCHANGED <<logs, faults>>
    ELSE \E ok \in BOOLEAN :
            /\ ~ok => faults > 0
            /\ faults' = IF ok THEN faults ELSE faults - 1
            /\ logs' = IF ok THEN Append(logs, logEntry(call[s].user, action, task)) ELSE logs
            /\ call' = [call EXCEPT ![s].logged = IF ok THEN @ + 1 ELSE @,
                                    ![s].logFailed = ~ok,
                                    ![s].error = IF ok THEN @ ELSE error,
                                    ![s].pc = IF ok THEN next ELSE "threw"]

\* await createLog(user, 'created', createdTask)
AddTaskCreateLog(s) ==
    /\ call[s].op = "addTask" /\ call[s].pc = "createLog"
    /\ CreateLog(s, "created", call[s].updatedTask, "notify", "addDoc rejected")
    /\ UNCHANGED <<tasks, nextTaskId, nextCommentId, loggedInUserId, pageUser, pageTask, pageProgress,
                   calls, pageVars, listVars, readVars, mailVars, cacheVars>>

\* the notification loop over taskData.assigneeIds, then return createdTask
AddTaskNotify(s) ==
    /\ call[s].op = "addTask" /\ call[s].pc = "notify"
    /\ LET recipients == notified(call[s].data.assigneeIds)
       IN  \E failing \in Failing(recipients) :
              /\ faults' = faults - Cardinality(failing)
              /\ LET loop == sendAll(recipients, failing)
                 IN  call' = [call EXCEPT ![s].sent = loop.attempted,
                                          ![s].failed = failing,
                                          ![s].error = IF loop.threw THEN "Failed to send email"
                                                       ELSE @,
                                          ![s].pc = IF loop.threw THEN "threw" ELSE "returned"]
    /\ UNCHANGED <<tasks, logs, nextTaskId, nextCommentId, loggedInUserId, pageUser,
                   pageTask, pageProgress, calls, pageVars, listVars, readVars, mailVars, cacheVars>>

\* ---- updateTask(taskId, data)
\* called by EditTaskPage.onSubmit: the page loaded for the task's assigner
EditStart(s, title, assigneeIds) ==
    /\ CanStart(s)
    /\ pageTask[s] # null
    /\ pageUser[s] # null
    /\ pageUser[s].id = pageTask[s].assignerId
    /\ assigneeIds \in FormAssigneeIds(assigneeIdsOrEmpty(pageTask[s]),
                                       editFilteredUsers(pageUser[s], MainUsers))
    /\ Begin(s, "updateTask", pageTask[s].id,
             [title |-> title, description |-> pageTask[s].description,
              assigneeIds |-> assigneeIds,
              deadline |-> toISOString(parseDate(pageTask[s].deadline))],
             "getOriginal")
    /\ UNCHANGED <<tasks, logs, nextTaskId, nextCommentId, loggedInUserId, pageUser,
                   pageTask, pageProgress, faults, pageVars, listVars, readVars, mailVars, cacheVars>>

\* isAssignee / isAssigner of the detail page: computed from the page's
\* task and currentUser states
isAssignee(s) ==
    pageUser[s] # null /\ Includes(assigneeIdsOrEmpty(pageTask[s]), pageUser[s].id)

isAssigner(s) == pageUser[s] # null /\ pageTask[s].assignerId = pageUser[s].id

\* TaskDetailPage.handleProgressChange: the Slider's onValueChange; the
\* slider is rendered for an assignee or the assigner and disabled for a
\* user who is not an assignee.  A move of the slider while a call of the
\* page is in flight commutes with the call, and is taken after it.
HandleProgressChange(s, progress) ==
    /\ Free(s)
    /\ pageTask[s] # null
    /\ isAssignee(s)
    /\ progress # pageProgress[s]
    /\ pageProgress' = [pageProgress EXCEPT ![s] = progress]
    /\ UNCHANGED <<tasks, logs, nextTaskId, nextCommentId, loggedInUserId, pageUser,
                   pageTask, call, calls, faults, pageVars, listVars, readVars, mailVars, cacheVars>>

\* mutant: the Save button is rendered for an assignee only
saveRendered_assigneeOnly(s) == isAssignee(s)

\* {(isAssignee || isAssigner) && ( ... <Button onClick={handleProgressUpdate}
\* disabled={isSubmitting || progress === task.progress}> ... )}
saveRendered(s) == isAssignee(s) \/ isAssigner(s)

\* TaskDetailPage.handleProgressUpdate, by a click on Save:
\* updateTask(task.id, { progress, status: newStatus })
ProgressStart(s) ==
    /\ CanStart(s)
    /\ pageTask[s] # null
    /\ saveRendered(s)
    /\ pageProgress[s] # pageTask[s].progress
    /\ Begin(s, "updateTask", pageTask[s].id,
             [progress |-> pageProgress[s], status |-> newStatus(pageProgress[s])],
             "getOriginal")
    /\ UNCHANGED <<tasks, logs, nextTaskId, nextCommentId, loggedInUserId, pageUser,
                   pageTask, pageProgress, faults, pageVars, listVars, readVars, mailVars, cacheVars>>

\* const originalTask = await getTask(taskId)
UpdateGetOriginal(s) ==
    /\ call[s].op = "updateTask" /\ call[s].pc = "getOriginal"
    /\ call' = [call EXCEPT ![s].originalTask = getTask(call[s].taskId),
                            ![s].pc = "updateDoc"]
    /\ UNCHANGED <<tasks, logs, nextTaskId, nextCommentId, loggedInUserId, pageUser,
                   pageTask, pageProgress, calls, faults, pageVars, listVars, readVars, mailVars, cacheVars>>

\* mutant: the write is a set with merge, which needs no stored document
notFound_never(id) == FALSE

\* updateDoc on a reference whose document does not exist
notFound(id) == tasks[id] = null

\* await updateDoc(taskRef, data): rejects when the document does not exist
UpdateUpdateDoc(s) ==
    /\ call[s].op = "updateTask" /\ call[s].pc = "updateDoc"
    /\ LET id == call[s].taskId
       IN  IF notFound(id)
           THEN /\ call' = [call EXCEPT ![s].pc = "threw", ![s].error = "No document to update"]
                /\ UNCHANGED tasks
           ELSE /\ tasks' = [tasks EXCEPT ![id] = merged(tasks[id], call[s].data)]
                /\ call' = [call EXCEPT ![s].pc = "getTask", ![s].wrote = TRUE]
    /\ UNCHANGED <<logs, nextTaskId, nextCommentId, loggedInUserId, pageUser, pageTask, pageProgress, calls,
                   faults, pageVars, listVars, readVars, mailVars, cacheVars>>

\* const updatedTask = await getTask(taskId)
UpdateGetTask(s) ==
    /\ call[s].op = "updateTask" /\ call[s].pc = "getTask"
    /\ LET updatedTask == getTask(call[s].taskId)
       IN  call' = [call EXCEPT ![s].updatedTask = updatedTask,
                                ![s].pc = IF updatedTask # null THEN "createLog" ELSE "returned"]
    /\ UNCHANGED <<tasks, logs, nextTaskId, nextCommentId, loggedInUserId, pageUser,
                   pageTask, pageProgress, calls, faults, pageVars, listVars, readVars, mailVars, cacheVars>>

\* await createLog(user, 'updated', updatedTask)
UpdateCreateLog(s) ==
    /\ call[s].op = "updateTask" /\ call[s].pc = "createLog"
    /\ CreateLog(s, "updated", call[s].updatedTask, "notify", "addDoc rejected")
    /\ UNCHANGED <<tasks, nextTaskId, nextCommentId, loggedInUserId, pageUser, pageTask, pageProgress,
                   calls, pageVars, listVars, readVars, mailVars, cacheVars>>

\* if (originalTask && data.assigneeIds) { ... the notification loop ... };
\* return updatedTask, which the detail page stores with setTask
UpdateNotify(s) ==
    /\ call[s].op = "updateTask" /\ call[s].pc = "notify"
    /\ LET recipients == IF call[s].originalTask # null
                            /\ "assigneeIds" \in DOMAIN call[s].data
                         THEN notified(newAssignees(call[s].originalTask, call[s].data))
                         ELSE <<>>
       IN  \E failing \in Failing(recipients) :
              /\ faults' = faults - Cardinality(failing)
              /\ LET loop == sendAll(recipients, failing)
                 IN  /\ call' = [call EXCEPT
                           ![s].sent = loop.attempted,
                           ![s].failed = failing,
                           ![s].error = IF loop.threw THEN "Failed to send email" ELSE @,
                           ![s].pc = IF loop.threw THEN "threw" ELSE "returned"]
                     /\ pageTask' = IF loop.threw THEN pageTask
                                    ELSE [pageTask EXCEPT ![s] = call[s].updatedTask]
                     /\ pageProgress' = IF loop.threw \/ "title" \notin DOMAIN call[s].data
                                        THEN pageProgress
                                        ELSE [pageProgress EXCEPT
                                                ![s] = fetchedProgress(call[s].updatedTask)]
    /\ UNCHANGED <<tasks, logs, nextTaskId, nextCommentId, loggedInUserId, pageUser, calls,
                   pageVars, listVars, readVars, mailVars, cacheVars>>

\* ---- deleteTask(taskId), called by TaskDetailPage.handleDeleteTask: the
\* delete control is rendered for the task's assigner only
DeleteStart(s) ==
    /\ CanStart(s)
    /\ pageTask[s] # null
    /\ pageUser[s] # null
    /\ pageUser[s].id = pageTask[s].assignerId
    /\ Begin(s, "deleteTask", pageTask[s].id, null, "getTask")
    /\ UNCHANGED <<tasks, logs, nextTaskId, nextCommentId, loggedInUserId, pageUser,
                   pageTask, pageProgress, faults, pageVars, listVars, readVars, mailVars, cacheVars>>

\* mutant: a missing task is not an error, the call goes on to deleteDoc
afterDeleteRead_proceed(taskToDelete) ==
    [pc |-> "deleteDoc", thrown |-> "", error |-> ""]

\* if (!taskToDelete) throw new Error("Task not found."), which the catch
\* logs and replaces: throw new Error("Failed to delete task")
afterDeleteRead(taskToDelete) ==
    IF taskToDelete = null
    THEN [pc |-> "threw", thrown |-> "Task not found.", error |-> "Failed to delete task"]
    ELSE [pc |-> "deleteDoc", thrown |-> "", error |-> ""]

\* const taskToDelete = await getTask(taskId); throw if it is null
DeleteGetTask(s) ==
    /\ call[s].op = "deleteTask" /\ call[s].pc = "getTask"
    /\ LET taskToDelete == getTask(call[s].taskId)
           after == afterDeleteRead(taskToDelete)
       IN  call' = [call EXCEPT ![s].originalTask = taskToDelete,
                                ![s].pc = after.pc,
                                ![s].thrown = after.thrown,
                                ![s].error = after.error]
    /\ UNCHANGED <<tasks, logs, nextTaskId, nextCommentId, loggedInUserId, pageUser,
                   pageTask, pageProgress, calls, faults, pageVars, listVars, readVars, mailVars, cacheVars>>

\* await deleteDoc(taskRef): succeeds whether or not the document is there
DeleteDeleteDoc(s) ==
    /\ call[s].op = "deleteTask" /\ call[s].pc = "deleteDoc"
    /\ tasks' = [tasks EXCEPT ![call[s].taskId] = null]
    /\ call' = [call EXCEPT ![s].pc = "createLog",
                            ![s].wrote = tasks[call[s].taskId] # null]
    /\ UNCHANGED <<logs, nextTaskId, nextCommentId, loggedInUserId, pageUser, pageTask, pageProgress, calls,
                   faults, pageVars, listVars, readVars, mailVars, cacheVars>>

\* mutant: the task is read again for the log, after it was removed
taskToDelete_reread(s) == getTask(call[s].taskId)

\* const taskToDelete = await getTask(taskId), read before deleteDoc
taskToDelete(s) == call[s].originalTask

\* await createLog(user, 'deleted', taskToDelete); the page leaves for /tasks
DeleteCreateLog(s) ==
    /\ call[s].op = "deleteTask" /\ call[s].pc = "createLog"
    /\ CreateLog(s, "deleted", taskToDelete(s), "returned", "Failed to delete task")
    /\ pageTask' = IF call'[s].pc = "returned" THEN [pageTask EXCEPT ![s] = null]
                   ELSE pageTask
    /\ pageProgress' = IF call'[s].pc = "returned" THEN [pageProgress EXCEPT ![s] = 0]
                       ELSE pageProgress
    /\ UNCHANGED <<tasks, nextTaskId, nextCommentId, loggedInUserId, pageUser, calls,
                   pageVars, listVars, readVars, mailVars, cacheVars>>

\* ---- addComment(taskId, text), called by TaskDetailPage.handleAddComment:
\* getLoggedInUser(), throw if null, then
\* const newComment = { id: uuidv4(), userId: user.id, text, ... }
CommentStart(s, text) ==
    /\ CanStart(s)
    /\ pageTask[s] # null
    /\ LET user == getLoggedInUser(s)
           id == pageTask[s].id
       IN  IF user = null
           THEN /\ call' = [call EXCEPT ![s] = [Idle EXCEPT !.op = "addComment", !.taskId = id,
                                                            !.data = text, !.pc = "threw",
                                                            !.error = "User not logged in"]]
                /\ UNCHANGED nextCommentId
           ELSE /\ call' = [call EXCEPT ![s] =
                              [Idle EXCEPT !.op = "addComment", !.taskId = id, !.data = text,
                                           !.user = user, !.pc = "updateDoc",
                                           !.comment = [id |-> nextCommentId,
                                                        userId |-> user.id, text |-> text],
                                           !.before = IF tasks[id] # null
                                                      THEN tasks[id].comments ELSE <<>>]]
                /\ nextCommentId' = nextCommentId + 1
    /\ calls' = calls + 1
    /\ UNCHANGED <<tasks, logs, nextTaskId, loggedInUserId, pageUser, pageTask, pageProgress, faults,
                   pageVars, listVars, readVars, mailVars, cacheVars>>

\* await updateDoc(taskRef, { comments: arrayUnion(newComment) })
CommentUpdateDoc(s) ==
    /\ call[s].op = "addComment" /\ call[s].pc = "updateDoc"
    /\ LET id == call[s].taskId
       IN  IF tasks[id] = null
           THEN /\ call' = [call EXCEPT ![s].pc = "threw", ![s].error = "No document to update"]
                /\ UNCHANGED tasks
           ELSE /\ tasks' = [tasks EXCEPT ![id].comments =
                                arrayUnion(tasks[id].comments, <<call[s].comment>>)]
                /\ call' = [call EXCEPT ![s].pc = "getTask", ![s].wrote = TRUE]
    /\ UNCHANGED <<logs, nextTaskId, nextCommentId, loggedInUserId, pageUser, pageTask, pageProgress, calls,
                   faults, pageVars, listVars, readVars, mailVars, cacheVars>>

\* const updatedTask = await getTask(taskId)
CommentGetTask(s) ==
    /\ call[s].op = "addComment" /\ call[s].pc = "getTask"
    /\ LET updatedTask == getTask(call[s].taskId)
       IN  call' = [call EXCEPT ![s].updatedTask = updatedTask,
                                ![s].pc = IF updatedTask # null THEN "createLog" ELSE "returned"]
    /\ UNCHANGED <<tasks, logs, nextTaskId, nextCommentId, loggedInUserId, pageUser,
                   pageTask, pageProgress, calls, faults, pageVars, listVars, readVars, mailVars, cacheVars>>

\* await createLog(user, 'commented on', updatedTask); return updatedTask,
\* which the detail page stores with setTask
CommentCreateLog(s) ==
    /\ call[s].op = "addComment" /\ call[s].pc = "createLog"
    /\ CreateLog(s, "commented on", call[s].updatedTask, "returned", "addDoc rejected")
    /\ pageTask' = IF call'[s].pc = "returned"
                   THEN [pageTask EXCEPT ![s] = call[s].updatedTask]
                   ELSE pageTask
    /\ UNCHANGED pageProgress
    /\ UNCHANGED <<tasks, nextTaskId, nextCommentId, loggedInUserId, pageUser, calls,
                   pageVars, listVars, readVars, mailVars, cacheVars>>

\* the steps of session s that are the same in every specification
Step(s) ==
    \/ \E id \in TaskIds : OpenTask(s, id)
    \/ AddTaskSetDoc(s)
    \/ AddTaskGetTask(s)
    \/ AddTaskCreateLog(s)
    \/ AddTaskNotify(s)
    \/ \E title \in Titles, ids \in NoDupSeqs(MainUserIds, Len(MainUsers)) :
          EditStart(s, title, ids)
    \/ \E p \in Progresses : HandleProgressChange(s, p)
    \/ ProgressStart(s)
    \/ UpdateGetOriginal(s)
    \/ UpdateUpdateDoc(s)
    \/ UpdateGetTask(s)
    \/ UpdateCreateLog(s)
    \/ UpdateNotify(s)
    \/ DeleteStart(s)
    \/ DeleteGetTask(s)
    \/ DeleteDeleteDoc(s)
    \/ DeleteCreateLog(s)
    \/ \E text \in Texts : CommentStart(s, text)
    \/ CommentUpdateDoc(s)
    \/ CommentGetTask(s)
    \/ CommentCreateLog(s)

\* two sessions, every collaborator working, tasks without attachments
Next ==
    \E s \in Sessions :
        \/ \E ids \in NoDupSeqs(MainUserIds, Len(MainUsers)) : AddTaskStart(s, "a", ids, <<>>)
        \/ Step(s)

Spec == InitStore /\ [][Next]_vars

\* the session of the single-session specification
Solo == 1

InitSolo ==
    /\ IdlePage
    /\ IdleList
    /\ IdleRead
    /\ IdleMail
    /\ IdleCache
    /\ tasks = [id \in TaskIds |-> null]
    /\ logs = <<>>
    /\ nextTaskId = 1
    /\ nextCommentId = 1
    /\ \E id \in MainUserIds :
          loggedInUserId = [s \in Sessions |-> IF s = Solo THEN id ELSE NoId]
    /\ pageUser = [s \in Sessions |-> getLoggedInUser(s)]
    /\ pageTask = [s \in Sessions |-> null]
    /\ pageProgress = [s \in Sessions |-> 0]
    /\ call = [s \in Sessions |-> Idle]
    /\ calls = 0
    /\ faults = MaxFaults

\* one session; uploads, log writes and email deliveries may fail, the user
\* may log out in another tab, tasks may have attachments
NextSolo ==
    \/ \E ids \in NoDupSeqs(MainUserIds, Len(MainUsers)), attachments \in Attachments :
          AddTaskStart(Solo, "a", ids, attachments)
    \/ AddTaskUpload(Solo)
    \/ AddTaskAttach(Solo)
    \/ Logout(Solo)
    \/ \E id \in MainUserIds : Login(Solo, id)
    \/ Step(Solo)

SpecSolo == InitSolo /\ [][NextSolo]_vars

(***************************************************************************)
(* addTask and updateTask called with any value of their parameter types   *)
(***************************************************************************)
\* taskData.assigneeIds: string[]
AssigneeIdLists == NoDupSeqs(MainUserIds, 2)

\* addTask(taskData) for a taskData of type TaskData
AddTaskCall(s, title, assigneeIds) ==
    /\ CanStart(s)
    /\ nextTaskId + Cardinality({r \in Sessions : call[r].pc = "setDoc"}) <= MaxTasks
    /\ \E description \in Descriptions, deadline \in Deadlines, assigner \in MainUserIds :
          Begin(s, "addTask", 0,
                [title |-> title, description |-> description,
                 assigneeIds |-> assigneeIds, deadline |-> deadline,
                 attachments |-> <<>>, assignerId |-> assigner],
                "setDoc")
    /\ UNCHANGED <<tasks, logs, nextTaskId, nextCommentId, loggedInUserId, pageUser,
                   pageTask, pageProgress, faults, pageVars, listVars, readVars, mailVars,
                   cacheVars>>

\* updateTask(taskId, data) for a data of type Partial<Task> that holds
\* assigneeIds
UpdateTaskCall(s, id, assigneeIds) ==
    /\ CanStart(s)
    /\ id < nextTaskId
    /\ Begin(s, "updateTask", id, [assigneeIds |-> assigneeIds], "getOriginal")
    /\ UNCHANGED <<tasks, logs, nextTaskId, nextCommentId, loggedInUserId, pageUser,
                   pageTask, pageProgress, faults, pageVars, listVars, readVars, mailVars,
                   cacheVars>>

NextDirect ==
    \/ \E title \in Titles, ids \in AssigneeIdLists : AddTaskCall(Solo, title, ids)
    \/ AddTaskSetDoc(Solo)
    \/ AddTaskGetTask(Solo)
    \/ AddTaskCreateLog(Solo)
    \/ AddTaskNotify(Solo)
    \/ \E id \in TaskIds, ids \in AssigneeIdLists : UpdateTaskCall(Solo, id, ids)
    \/ UpdateGetOriginal(Solo)
    \/ UpdateUpdateDoc(Solo)
    \/ UpdateGetTask(Solo)
    \/ UpdateCreateLog(Solo)
    \/ UpdateNotify(Solo)

SpecDirect == InitSolo /\ [][NextDirect]_vars

(***************************************************************************)
(* The detail pages of two browsers on tasks that are already stored       *)
(***************************************************************************)
\* what summarizeTask returns as result.summary
Summaries == {"s"}

\* isManager of the detail page
isManager(s) == pageUser[s] # null /\ pageUser[s].level <= 1

\* TaskDetailPage.handleGenerateSummary, rendered for isManager: when
\* summarizeTask returns a summary, updateTask(task.id, { summary })
SummaryStart(s, summary) ==
    /\ CanStart(s)
    /\ pageTask[s] # null
    /\ isManager(s)
    /\ Begin(s, "updateTask", pageTask[s].id, [summary |-> summary], "getOriginal")
    /\ UNCHANGED <<tasks, logs, nextTaskId, nextCommentId, loggedInUserId, pageUser,
                   pageTask, pageProgress, faults, pageVars, listVars, readVars, mailVars, cacheVars>>

\* the store after addTask calls made from the assign page of one user
InitDetail ==
    /\ IdlePage
    /\ IdleList
    /\ IdleRead
    /\ IdleMail
    /\ IdleCache
    /\ \E assigner \in MainUserIds :
          \E assigneeIds \in FormAssigneeIds(<<>>, assignFilteredUsers(getUser(assigner),
                                                                      MainUsers)) :
             /\ tasks = [id \in TaskIds |->
                            withId(id, newTask([title |-> "a", description |-> "d",
                                                assigneeIds |-> assigneeIds, deadline |-> 7,
                                                assignerId |-> assigner]))]
             /\ logs = [id \in TaskIds |-> logEntry(getUser(assigner), "created", tasks[id])]
    /\ nextTaskId = MaxTasks + 1
    /\ nextCommentId = 1
    /\ loggedInUserId \in [Sessions -> MainUserIds]
    /\ pageUser = [s \in Sessions |-> getLoggedInUser(s)]
    /\ pageTask = [s \in Sessions |-> null]
    /\ pageProgress = [s \in Sessions |-> 0]
    /\ call = [s \in Sessions |-> Idle]
    /\ calls = 0
    /\ faults = 0

NextDetail ==
    \E s \in Sessions :
        \/ \E id \in TaskIds : OpenTask(s, id)
        \/ \E p \in Progresses : HandleProgressChange(s, p)
        \/ ProgressStart(s)
        \/ \E summary \in Summaries : SummaryStart(s, summary)
        \/ UpdateGetOriginal(s)
        \/ UpdateUpdateDoc(s)
        \/ UpdateGetTask(s)
        \/ UpdateCreateLog(s)
        \/ UpdateNotify(s)
        \/ DeleteStart(s)
        \/ DeleteGetTask(s)
        \/ DeleteDeleteDoc(s)
        \/ DeleteCreateLog(s)
        \/ \E text \in Texts : CommentStart(s, text)
        \/ CommentUpdateDoc(s)
        \/ CommentGetTask(s)
        \/ CommentCreateLog(s)

SpecDetail == InitDetail /\ [][NextDetail]_vars

(***************************************************************************)
(* The edit and detail pages of one tab while the login changes in another *)
(***************************************************************************)
NextTabs ==
    \/ \E id \in TaskIds : OpenTask(Solo, id)
    \/ Logout(Solo)
    \/ \E id \in MainUserIds : LoginOtherTab(Solo, id)
    \/ \E title \in Titles, ids \in NoDupSeqs(MainUserIds, Len(MainUsers)) :
          EditStart(Solo, title, ids)
    \/ UpdateGetOriginal(Solo)
    \/ UpdateUpdateDoc(Solo)
    \/ UpdateGetTask(Solo)
    \/ UpdateCreateLog(Solo)
    \/ UpdateNotify(Solo)
    \/ DeleteStart(Solo)
    \/ DeleteGetTask(Solo)
    \/ DeleteDeleteDoc(Solo)
    \/ DeleteCreateLog(Solo)

SpecTabs == InitDetail /\ [][NextTabs]_vars

(***************************************************************************)
(* getTask(id) called repeatedly                                           *)
(***************************************************************************)
\* the documents the collection may hold under id
ReadDocs(id) ==
    {withId(id, newTask([title |-> title, description |-> description,
                         assigneeIds |-> <<assignee>>, deadline |-> deadline,
                         assignerId |-> assigner])) :
        title \in Titles, description \in Descriptions, deadline \in Deadlines,
        assigner \in MainUserIds, assignee \in MainUserIds}

\* mutant: a missing document is an error
getTaskResult_missingThrows(id, readOk) ==
    IF readOk
    THEN [id |-> id, ok |-> TRUE, threw |-> getTask(id) = null, task |-> getTask(id)]
    ELSE [id |-> id, ok |-> FALSE, threw |-> FALSE, task |-> null]

\* what a getTask(id) call ends in: try { docSnap = await getDoc(docRef);
\* return docSnap.exists() ? {...} : null } catch { console.error; return null }
getTaskResult(id, readOk) ==
    IF readOk
    THEN [id |-> id, ok |-> TRUE, threw |-> FALSE, task |-> getTask(id)]
    ELSE [id |-> id, ok |-> FALSE, threw |-> FALSE, task |-> null]

InitRead ==
    /\ IdlePage
    /\ IdleList
    /\ IdleMail
    /\ IdleCache
    /\ tasks \in [TaskIds -> UNION {ReadDocs(id) : id \in TaskIds} \cup {null}]
    /\ \A id \in TaskIds : tasks[id] # null => tasks[id].id = id
    /\ logs = <<>>
    /\ nextTaskId = MaxTasks + 1
    /\ nextCommentId = 1
    /\ loggedInUserId = [s \in Sessions |-> NoId]
    /\ pageUser = [s \in Sessions |-> null]
    /\ pageTask = [s \in Sessions |-> null]
    /\ pageProgress = [s \in Sessions |-> 0]
    /\ call = [s \in Sessions |-> Idle]
    /\ calls = 0
    /\ faults = 0
    /\ got = <<>>

\* a page calls getTask(id); the read of the document succeeds or fails
GetTask(id, readOk) ==
    /\ Len(got) < MaxReads
    /\ got' = Append(got, getTaskResult(id, readOk))
    /\ UNCHANGED <<storeVars, pageVars, listVars, mailVars, cacheVars>>

\* some session's updateDoc or deleteDoc changes the document: the reads
\* after it are not compared with those before it
Mutated(id, doc) ==
    /\ tasks[id] # null
    /\ doc # tasks[id]
    /\ doc # null => doc.id = id
    /\ tasks' = [tasks EXCEPT ![id] = doc]
    /\ got' = <<>>
    /\ UNCHANGED <<logs, nextTaskId, nextCommentId, loggedInUserId, pageUser, pageTask, pageProgress,
                   call, calls, faults, pageVars, listVars, mailVars, cacheVars>>

NextRead ==
    \/ \E id \in TaskIds, readOk \in BOOLEAN : GetTask(id, readOk)
    \/ \E id \in TaskIds : \E doc \in ReadDocs(id) \cup {null} : Mutated(id, doc)

SpecRead == InitRead /\ [][NextRead]_vars

(***************************************************************************)
(* TasksPage: the list getTasks returned, under each sort option           *)
(***************************************************************************)
\* type SortOption
SortOptions ==
    {"recent", "oldest", "deadline_asc", "deadline_desc", "deadline_crossed",
     "progress_desc", "progress_asc"}

\* the times new Date() and the stored dates range over
Times == 0..MaxTime + 1

\* a task as the list page holds it
ListedDocs(id) ==
    {[id |-> id, createdAt |-> createdAt, deadline |-> toISOString(deadline),
      progress |-> progress, status |-> newStatus(progress)] :
        createdAt \in 1..MaxTime, deadline \in 1..MaxTime, progress \in Progresses}

\* (task.progress || 0)
progressOrZero(task) == IF "progress" \in DOMAIN task THEN task.progress ELSE 0

\* the comparators of the switch in sortedTasks
compareFor(option, a, b) ==
    CASE option = "oldest" -> a.createdAt - b.createdAt
      [] option = "deadline_asc" -> parseDate(a.deadline) - parseDate(b.deadline)
      [] option = "deadline_crossed" -> parseDate(a.deadline) - parseDate(b.deadline)
      [] option = "deadline_desc" -> parseDate(b.deadline) - parseDate(a.deadline)
      [] option = "progress_desc" -> progressOrZero(b) - progressOrZero(a)
      [] option = "progress_asc" -> progressOrZero(a) - progressOrZero(b)
      [] OTHER -> compare(a, b)

RECURSIVE insertSortedFor(_, _, _)
\* x put into the sorted sequence s in front of the first element it has to
\* come before
insertSortedFor(option, s, x) ==
    IF s = <<>> THEN <<x>>
    ELSE IF compareFor(option, x, Head(s)) < 0 THEN <<x>> \o s
    ELSE <<Head(s)>> \o insertSortedFor(option, Tail(s), x)

RECURSIVE sortFor(_, _)
\* sorted.sort(comparator of the option)
sortFor(option, s) ==
    IF s = <<>> THEN <<>>
    ELSE insertSortedFor(option, sortFor(option, SubSeq(s, 1, Len(s) - 1)), s[Len(s)])

\* .filter(t => new Date(t.deadline).getTime() < now && t.status !== 'Completed')
crossed(task, now) == parseDate(task.deadline) < now /\ task.status # "Completed"

\* mutant: the overdue filter is applied under every option
sortedTasks_filtered(list, option, now) ==
    sortFor(option, SelectSeq(list, LAMBDA t : crossed(t, now)))

\* const sortedTasks = useMemo(() => { let sorted = [...tasks]; switch (sortBy)
\* { ... } return sorted }, [tasks, sortBy])
sortedTasks(list, option, now) ==
    IF option = "deadline_crossed"
    THEN sortFor(option, SelectSeq(list, LAMBDA t : crossed(t, now)))
    ELSE sortFor(option, list)

\* the page after fetchInitialData: tasks is what getTasks returned, most
\* recent first, and sortBy is "recent"
InitSort ==
    /\ IdlePage
    /\ IdleStore
    /\ IdleRead
    /\ IdleMail
    /\ IdleCache
    /\ taskDocs = <<>>
    /\ viewer = null
    /\ \E n \in 0..MaxDocs :
          \E d \in [1..n -> UNION {ListedDocs(i) : i \in 1..n}] :
             /\ \A i \in 1..n : d[i].id = i
             /\ listed = [ok |-> TRUE, threw |-> FALSE, tasks |-> sort(d)]
    /\ sortBy = "recent"
    /\ \E now \in Times : shown = [now |-> now, tasks |-> sortedTasks(listed.tasks, "recent", now)]

\* the Select's onValueChange={setSortBy}: the memo is computed again
SetSortBy(option, now) ==
    /\ option # sortBy
    /\ sortBy' = option
    /\ shown' = [now |-> now, tasks |-> sortedTasks(listed.tasks, option, now)]
    /\ UNCHANGED <<taskDocs, viewer, listed, pageVars, storeVars, readVars, mailVars,
                   cacheVars>>

NextSort == \E option \in SortOptions, now \in Times : SetSortBy(option, now)

SpecSort == InitSort /\ [][NextSort]_vars

(***************************************************************************)
(* getUsers / getUser and the module-level allUsersCache of one process    *)
(***************************************************************************)
\* the callers that may be awaiting a call at the same time (the elements of
\* a Promise.all, two components)
Callers == 1..2

\* the user documents the collection may hold
DirUsers == [id : ListUserIds, level : 1..2]

\* the contents of the "users" collection: no two documents share an id
UserStores ==
    {q \in NoDupSeqs(DirUsers, 2) : \A i, j \in 1..Len(q) : i # j => q[i].id # q[j].id}

NoCall ==
    [op |-> "none", pc |-> "idle", id |-> NoId, result |-> null,
     startCache |-> null,      \* allUsersCache when the call started
     read |-> FALSE,           \* the call has awaited getDocs
     readFailed |-> FALSE,     \* getDocs rejected
     cacheBefore |-> null,     \* allUsersCache just before the catch or the assignment
     cacheAfter |-> null]      \* allUsersCache when the call returned

\* users.find(u => u.id === id) || null
find(list, id) ==
    IF \E i \in 1..Len(list) : list[i].id = id
    THEN list[CHOOSE i \in 1..Len(list) : list[i].id = id /\ \A j \in 1..(i - 1) : list[j].id # id]
    ELSE null

\* allUsersCache = users: the cache holding the array users
cached(list) == [users |-> list]

\* if (allUsersCache): an array, empty or not, is truthy
populated(cache) == cache # null

\* mutant: the catch leaves the empty list in the cache
afterFailedRead_cached(cache) == cached(<<>>)

\* catch (error) { console.error(...); return []; }: the cache is not assigned
afterFailedRead(cache) == cache

InitCache ==
    /\ IdlePage
    /\ IdleList
    /\ IdleStore
    /\ IdleRead
    /\ IdleMail
    /\ userStore \in UserStores
    /\ allUsersCache = null
    /\ userCall = [c \in Callers |-> NoCall]
    /\ fetches = [calls |-> 0, reads |-> 0, assigns |-> 0, late |-> 0]

CallerFree(c) == userCall[c].pc \in {"idle", "done"} /\ fetches.calls < MaxCalls

\* getUsers(): if (allUsersCache) return allUsersCache; otherwise go on to
\* await getDocs
GetUsersStart(c) ==
    /\ CallerFree(c)
    /\ userCall' = [userCall EXCEPT ![c] =
          IF populated(allUsersCache)
          THEN [NoCall EXCEPT !.op = "getUsers", !.pc = "done", !.result = allUsersCache.users,
                              !.startCache = allUsersCache, !.cacheAfter = allUsersCache]
          ELSE [NoCall EXCEPT !.op = "getUsers", !.pc = "getDocs"]]
    /\ fetches' = [fetches EXCEPT !.calls = @ + 1]
    /\ UNCHANGED <<userStore, allUsersCache, pageVars, listVars, storeVars, readVars, mailVars>>

\* getUser(id): if (!id) return null; a hit in the cache is returned; a
\* miss calls getUsers(), which returns the populated cache or goes on to
\* await getDocs
GetUserStart(c, id) ==
    /\ CallerFree(c)
    /\ userCall' = [userCall EXCEPT ![c] =
          IF id = NoId
          THEN [NoCall EXCEPT !.op = "getUser", !.pc = "done", !.startCache = allUsersCache,
                              !.cacheAfter = allUsersCache]
          ELSE IF populated(allUsersCache)
          THEN [NoCall EXCEPT !.op = "getUser", !.id = id, !.pc = "done",
                              !.result = find(allUsersCache.users, id),
                              !.startCache = allUsersCache, !.cacheAfter = allUsersCache]
          ELSE [NoCall EXCEPT !.op = "getUser", !.id = id, !.pc = "getDocs"]]
    /\ fetches' = [fetches EXCEPT !.calls = @ + 1]
    /\ UNCHANGED <<userStore, allUsersCache, pageVars, listVars, storeVars, readVars, mailVars>>

\* const snapshot = await getDocs(usersCollection) resolves or rejects, and
\* the call runs to its return: allUsersCache = users; return users, or the
\* catch; getUser then looks the id up in what getUsers returned
GetDocs(c, ok) ==
    /\ userCall[c].pc = "getDocs"
    /\ LET fetched == IF ok THEN userStore ELSE <<>>
           cache == IF ok THEN cached(userStore) ELSE afterFailedRead(allUsersCache)
       IN  /\ allUsersCache' = cache
           /\ userCall' = [userCall EXCEPT
                 ![c].pc = "done",
                 ![c].read = TRUE,
                 ![c].readFailed = ~ok,
                 ![c].cacheBefore = allUsersCache,
                 ![c].cacheAfter = cache,
                 ![c].result = IF userCall[c].op = "getUsers" THEN fetched
                               ELSE find(fetched, userCall[c].id)]
    /\ fetches' = [fetches EXCEPT !.reads = @ + 1,
                                  !.assigns = IF ok THEN @ + 1 ELSE @,
                                  !.late = IF populated(userCall[c].startCache)
                                           THEN @ + 1 ELSE @]
    /\ UNCHANGED <<userStore, pageVars, listVars, storeVars, readVars, mailVars>>

\* the collection is changed from outside the process
StoreChanges(store) ==
    /\ store # userStore
    /\ userStore' = store
    /\ UNCHANGED <<allUsersCache, userCall, fetches, pageVars, listVars, storeVars,
                   readVars, mailVars>>

NextCache ==
    \/ \E c \in Callers : GetUsersStart(c)
    \/ \E c \in Callers, id \in ListUserIds \cup {NoId} : GetUserStart(c, id)
    \/ \E c \in Callers, ok \in BOOLEAN : GetDocs(c, ok)
    \/ \E store \in UserStores : StoreChanges(store)

SpecCache == InitCache /\ [][NextCache]_vars

(***************************************************************************)
(* sendEmail: the Resend flow and the Nodemailer flow                      *)
(***************************************************************************)
\* the recipients an email is addressed to: the users' addresses
Recipient == MainUserIds

\* what the module-level initialisation leaves: resend is set iff
\* RESEND_API_KEY is, transporter iff GMAIL_EMAIL and GMAIL_APP_PASSWORD are
MailConfigs == [resend : BOOLEAN, transporter : BOOLEAN]

\* the Resend sendEmailFlow: if (!resend) { console.error; return } then
\* try { await resend.emails.send(...) } catch { console.error }
resendSendEmail(config, to, sendOk) ==
    IF ~config.resend
    THEN [impl |-> "resend", to |-> to, configured |-> FALSE, sent |-> FALSE,
          warned |-> TRUE, threw |-> FALSE, error |-> ""]
    ELSE [impl |-> "resend", to |-> to, configured |-> TRUE, sent |-> sendOk,
          warned |-> ~sendOk, threw |-> FALSE, error |-> ""]

\* the Nodemailer sendEmailFlow: if (!transporter) { console.error; throw
\* new Error("Email service is not configured.") } then try { await
\* transporter.sendMail(...) } catch { console.error; throw new Error(...) }
nodemailerSendEmail(config, to, sendOk) ==
    IF ~config.transporter
    THEN [impl |-> "nodemailer", to |-> to, configured |-> FALSE, sent |-> FALSE,
          warned |-> TRUE, threw |-> TRUE, error |-> "Email service is not configured."]
    ELSE [impl |-> "nodemailer", to |-> to, configured |-> TRUE, sent |-> sendOk,
          warned |-> ~sendOk, threw |-> ~sendOk,
          error |-> IF sendOk THEN "" ELSE "Failed to send email"]

InitMail ==
    /\ IdleCache
    /\ IdlePage
    /\ IdleList
    /\ IdleStore
    /\ IdleRead
    /\ mailConfig \in MailConfigs
    /\ mailCalls = <<>>

\* sendEmail(input) served by the Resend flow; the provider accepts the
\* message or rejects it
ResendSendEmail(to, sendOk) ==
    /\ Len(mailCalls) < MaxMails
    /\ mailConfig.resend \/ sendOk
    /\ mailCalls' = Append(mailCalls, resendSendEmail(mailConfig, to, sendOk))
    /\ UNCHANGED <<mailConfig, storeVars, pageVars, listVars, readVars, cacheVars>>

\* sendEmail(input) served by the Nodemailer flow
NodemailerSendEmail(to, sendOk) ==
    /\ Len(mailCalls) < MaxMails
    /\ mailConfig.transporter \/ sendOk
    /\ mailCalls' = Append(mailCalls, nodemailerSendEmail(mailConfig, to, sendOk))
    /\ UNCHANGED <<mailConfig, storeVars, pageVars, listVars, readVars, cacheVars>>

NextMail ==
    \/ \E to \in Recipient, sendOk \in BOOLEAN : ResendSendEmail(to, sendOk)
    \/ \E to \in Recipient, sendOk \in BOOLEAN : NodemailerSendEmail(to, sendOk)

SpecMail == InitMail /\ [][NextMail]_vars

(***************************************************************************)
(* Properties of getTasks (checked under SpecList)                         *)
(***************************************************************************)
\* the stored task t names the user with this id as assigner or as assignee
NamesUser(t, id) ==
    \/ t.assignerId = id
    \/ "assigneeIds" \in DOMAIN t /\ id \in Range(t.assigneeIds)

\* C1: when the read of the task collection succeeds, getTasks(u) for a user
\* u with level > 1 returns stored tasks only, and a stored task is in the
\* returned list exactly when u is its assigner or one of its assignees (a
\* document without assigneeIds has no assignees).
C1_VisibleIffNamed ==
    (listed # null /\ listed.ok /\ viewer.level > 1) =>
        /\ Range(listed.tasks) \subseteq Range(taskDocs)
        /\ \A i \in 1..Len(taskDocs) :
              (taskDocs[i] \in Range(listed.tasks)) <=> NamesUser(taskDocs[i], viewer.id)

C1_Witness ==
    /\ listed # null /\ listed.ok /\ viewer.level > 1
    /\ \E i, j \in 1..Len(taskDocs) :
          /\ taskDocs[i] \in Range(listed.tasks)
          /\ taskDocs[i].assignerId # viewer.id
          /\ taskDocs[j] \notin Range(listed.tasks)
          /\ "assigneeIds" \notin DOMAIN taskDocs[j]

\* C2: when the read of the task collection succeeds, getTasks(u) for a user
\* u with level <= 1 returns every stored task, whoever assigned it and
\* whoever it is assigned to.
C2_ManagersSeeAll ==
    (listed # null /\ listed.ok /\ viewer.level <= 1) =>
        /\ Len(listed.tasks) = Len(taskDocs)
        /\ Range(listed.tasks) = Range(taskDocs)

C2_Witness ==
    /\ listed # null /\ listed.ok /\ viewer.level = 1
    /\ \E i \in 1..Len(taskDocs) :
          /\ ~NamesUser(taskDocs[i], viewer.id)
          /\ taskDocs[i] \in Range(listed.tasks)

(***************************************************************************)
(* Properties of the assignable-user filter (checked under SpecPage)       *)
(***************************************************************************)
\* fetchData of the assign page or of the edit page has set assignableUsers
Computed == page \in {"assign", "edit"} /\ currentUser # null

Assignable == Range(assignableUsers)

\* C3: for an actor u of level 0 or 1, the assignable users the assign page
\* and the edit page compute are the users of the list other than u.
C3_PresidiumAssignsAllOthers ==
    (Computed /\ currentUser.level \in {0, 1}) =>
        Assignable = Range(users) \ {currentUser}

C3_Witness ==
    /\ page = "edit" /\ currentUser # null /\ currentUser.level = 0
    /\ currentUser \in Range(users)
    /\ Assignable # {}

\* C4: for an actor u of level 3, the assignable users are exactly the users
\* v of the list with v.domain = u.domain and v.level > u.level.
C4_DirectorAssignsOwnDomain ==
    (Computed /\ currentUser.level = 3) =>
        Assignable = {v \in Range(users) :
                         v.domain = currentUser.domain /\ v.level > currentUser.level}

C4_Witness ==
    /\ page = "assign" /\ currentUser # null /\ currentUser.level = 3
    /\ Assignable # {}
    /\ \E v \in Range(users) : v.level > 3 /\ v \notin Assignable

\* C5: for an actor of level >= 5 the assignable users are empty, and the
\* assign page never submits a task for that actor.
C5_MembersCannotAssign ==
    (currentUser # null /\ currentUser.level >= 5) =>
        assignableUsers = <<>> /\ ~submitted

C5_Witness ==
    /\ page = "assign" /\ currentUser # null /\ currentUser.level >= 5
    /\ \E v \in Range(users) : v.id # currentUser.id /\ v.level >= currentUser.level
                                /\ v.domain = currentUser.domain

\* C6: whatever the actor's level and whatever the user list, the actor is
\* not among the actor's own assignable users.
C6_ActorNotAssignable ==
    currentUser # null => \A v \in Assignable : v.id # currentUser.id

C6_Witness ==
    /\ Computed /\ currentUser \in Range(users)
    /\ currentUser.level = 3
    /\ Assignable # {}

\* C7: for an actor of level 2, the assignable users are exactly the users
\* of the list with level >= 3, whatever their domain and subdomain.
C7_ExecutiveAssignsLevel3Up ==
    (Computed /\ currentUser.level = 2) =>
        Assignable = {v \in Range(users) : v.level >= 3}

C7_Witness ==
    /\ page = "assign" /\ currentUser # null /\ currentUser.level = 2
    /\ \E v \in Assignable : v.domain # currentUser.domain /\ v.subdomain # currentUser.subdomain

\* C8: for an actor u of level 4, the assignable users are exactly the users
\* v of the list with v.domain = u.domain, v.subdomain = u.subdomain and
\* v.level > u.level.
C8_LeadAssignsOwnSubdomain ==
    (Computed /\ currentUser.level = 4) =>
        Assignable = {v \in Range(users) : /\ v.domain = currentUser.domain
                                           /\ v.subdomain = currentUser.subdomain
                                           /\ v.level > currentUser.level}

C8_Witness ==
    /\ page = "edit" /\ currentUser # null /\ currentUser.level = 4
    /\ Assignable # {}

(***************************************************************************)
(* Properties of the task store (checked under Spec)                       *)
(***************************************************************************)
NoDuplicates(q) == \A i, j \in 1..Len(q) : i < j => q[i] # q[j]

\* an updateTask call of session s that carried an assigneeIds field and
\* returned the updated task
UpdatedAssignees(s) ==
    /\ call[s].op = "updateTask"
    /\ call[s].pc = "returned"
    /\ call[s].updatedTask # null
    /\ "assigneeIds" \in DOMAIN call[s].data

BothCommented(s1, s2) ==
    /\ s1 # s2
    /\ call[s1].op = "addComment" /\ call[s1].pc = "returned"
    /\ call[s2].op = "addComment" /\ call[s2].pc = "returned"
    /\ call[s1].taskId = call[s2].taskId
    /\ tasks[call[s1].taskId] # null

\* C10: after two addComment calls on the same existing task have both
\* completed, in whatever order their steps were interleaved, the task's
\* comments contain both new comments and every comment that was there when
\* either call started.
C10_NoLostComment ==
    \A s1, s2 \in Sessions :
        BothCommented(s1, s2) =>
            LET comments == Range(tasks[call[s1].taskId].comments)
            IN  /\ call[s1].comment \in comments
                /\ call[s2].comment \in comments
                /\ Range(call[s1].before) \subseteq comments
                /\ Range(call[s2].before) \subseteq comments

\* the two calls overlapped: each started before the other one had written
C10_Witness ==
    \E s1, s2 \in Sessions :
        /\ BothCommented(s1, s2)
        /\ call[s1].comment \notin Range(call[s2].before)
        /\ call[s2].comment \notin Range(call[s1].before)
        /\ Len(tasks[call[s1].taskId].comments) >= 2

\* a deleteTask call of session s whose getTask(taskId) found no task
DeletedMissing(s) ==
    /\ call[s].op = "deleteTask"
    /\ call[s].user # null
    /\ call[s].pc # "getTask"
    /\ call[s].originalTask = null

AddedTask(s) ==
    /\ call[s].op = "addTask"
    /\ call[s].pc = "returned"
    /\ call[s].updatedTask # null

\* the task getTask returns has the input's title, description, assigneeIds
\* and deadline, progress 0 and status "To Do"
RoundTrip(s) ==
    LET task == getTask(call[s].taskId)
        input == call[s].data
    IN  /\ task # null
        /\ task.id = call[s].taskId
        /\ task.title = input.title
        /\ task.description = input.description
        /\ task.assigneeIds = input.assigneeIds
        /\ parseDate(task.deadline) = input.deadline
        /\ task.progress = 0
        /\ task.status = "To Do"

\* C12 (as stated): after a successful addTask(input), getTask of the new id
\* returns a task with the input's title, description, assigneeIds and
\* deadline, progress 0, status "To Do" and no comments.
C12_RoundTripNoComments ==
    \A s \in Sessions :
        AddedTask(s) => RoundTrip(s) /\ getTask(call[s].taskId).comments = <<>>

\* C12 (amended): after a successful addTask(input), getTask of the new id
\* returns a task with the input's title, description, assigneeIds and
\* deadline, progress 0 and status "To Do"; its comments are the "File
\* uploaded:" comments of the attachments whose upload succeeded, in the
\* order of the attachments, so that they are empty when the input has no
\* attachments or no upload succeeded.
C12_RoundTrip ==
    \A s \in Sessions :
        AddedTask(s) =>
            /\ RoundTrip(s)
            /\ getTask(call[s].taskId).comments = call[s].attachmentComments
            /\ Len(call[s].attachmentComments) =
                  Cardinality({i \in 1..Len(call[s].uploads) :
                                  call[s].uploads[i].downloadURL # null})
            /\ \A i \in 1..Len(call[s].attachmentComments) :
                  call[s].attachmentComments[i].text[1] = "File uploaded: "

\* a task with two assignees was created and an attachment of it uploaded
C12_Witness ==
    \E s \in Sessions :
        /\ AddedTask(s)
        /\ getTask(call[s].taskId).comments # <<>>
        /\ Len(call[s].data.assigneeIds) >= 2

\* an addTask call of session s that has stored the task and is through with
\* the loop over the attachments
UploadsDone(s) ==
    /\ call[s].op = "addTask"
    /\ call[s].wrote
    /\ call[s].pc # "upload"

\* the uploadFile calls of the call that returned a download URL
Uploaded(s) == SelectSeq(call[s].uploads, LAMBDA u : u.downloadURL # null)

\* C13: in addTask with attachments a failed upload neither keeps the later
\* files from being uploaded nor aborts the call: an upload is attempted for
\* every attachment, in order; the task is in the store, even when every
\* upload failed; the call does not throw because of an upload; and the
\* comments made for the attachments are, one for one, those of the uploads
\* that succeeded, each with a text starting "File uploaded:" and naming the
\* file and with the returned download URL as fileURL. Once the call has
\* written them, they are the task's comments.
C13_UploadFailuresTolerated ==
    \A s \in Sessions :
        UploadsDone(s) =>
            /\ Len(call[s].uploads) = Len(call[s].data.attachments)
            /\ \A i \in 1..Len(call[s].uploads) :
                  call[s].uploads[i].name = call[s].data.attachments[i]
            /\ getTask(call[s].taskId) # null
            /\ call[s].pc = "threw" => call[s].logFailed
            /\ Len(call[s].attachmentComments) = Len(Uploaded(s))
            /\ \A i \in 1..Len(Uploaded(s)) :
                  /\ call[s].attachmentComments[i].text[1] = "File uploaded: "
                  /\ call[s].attachmentComments[i].text = fileMarker(Uploaded(s)[i].name)
                  /\ call[s].attachmentComments[i].fileURL = Uploaded(s)[i].downloadURL
                  /\ call[s].attachmentComments[i].userId = call[s].user.id
            /\ call[s].pc # "attach" =>
                  getTask(call[s].taskId).comments = call[s].attachmentComments

\* the first upload failed, the second one succeeded, the call returned the
\* task
C13_Witness ==
    \E s \in Sessions :
        /\ UploadsDone(s)
        /\ call[s].pc = "returned"
        /\ Len(call[s].uploads) = 2
        /\ call[s].uploads[1].downloadURL = null
        /\ call[s].uploads[2].downloadURL # null
        /\ Len(getTask(call[s].taskId).comments) = 1

(***************************************************************************)
(* Properties of the activity log                                          *)
(***************************************************************************)
\* session s has a call that is over
Completed(s) == call[s].op # "none" /\ call[s].pc \in {"returned", "threw"}

\* C14: in every interleaving of addTask, updateTask, deleteTask and
\* addComment calls, a call that has changed the tasks collection has added
\* exactly one entry to the activity log by the time it is over, and a call
\* that has changed nothing has added none.
C14_OneLogPerMutation ==
    \A s \in Sessions :
        Completed(s) =>
            /\ call[s].wrote => call[s].logged = 1
            /\ ~call[s].wrote => call[s].logged = 0

\* C15: a failed write of the activity-log entry does not block the mutation
\* it describes: the call whose log write was rejected does not throw, what
\* it wrote stays in the store, and addTask and updateTask still attempt
\* their notifications.
C15_LogFailureTolerated ==
    \A s \in Sessions :
        call[s].logFailed =>
            /\ call[s].wrote
            /\ call[s].pc # "threw"
            /\ (Completed(s) /\ call[s].op = "addTask") =>
                  call[s].sent = notified(call[s].data.assigneeIds)
            /\ (Completed(s) /\ call[s].op = "updateTask"
                  /\ "assigneeIds" \in DOMAIN call[s].data) =>
                  call[s].sent = notified(newAssignees(call[s].originalTask, call[s].data))

(***************************************************************************)
(* Properties of the reads (checked under SpecList, SpecRead)              *)
(***************************************************************************)
\* C16: when the read of the tasks collection fails, getTasks(user) returns
\* an empty list, whatever the user's level and whatever the collection
\* holds, and passes no error on to its caller.
C16_ReadFailureGivesEmptyList ==
    (listed # null /\ ~listed.ok) => (~listed.threw /\ listed.tasks = <<>>)

\* the read failed for a user of level <= 1 while the collection had tasks
C16_Witness ==
    /\ listed # null
    /\ ~listed.ok
    /\ viewer.level <= 1
    /\ taskDocs # <<>>

Recipients(s) ==
    IF call[s].op = "addTask" THEN notified(call[s].data.assigneeIds)
    ELSE IF call[s].originalTask # null /\ "assigneeIds" \in DOMAIN call[s].data
    THEN notified(newAssignees(call[s].originalTask, call[s].data))
    ELSE <<>>

\* C18: when sending the notification fails for some recipients of an
\* addTask or updateTask call, a send was still attempted for every
\* recipient, in order, and the call returned instead of throwing.
C18_NotificationFailureTolerated ==
    \A s \in Sessions :
        (call[s].op \in {"addTask", "updateTask"} /\ call[s].failed # {}) =>
            /\ call[s].pc = "returned"
            /\ call[s].sent = Recipients(s)
            /\ call[s].failed \subseteq Range(call[s].sent)

\* an addTask call with two recipients returned although the send to the
\* first of them failed
C18_Witness ==
    \E s \in Sessions :
        /\ call[s].op = "addTask"
        /\ call[s].pc = "returned"
        /\ Len(call[s].sent) = 2
        /\ call[s].failed = {call[s].sent[1]}

(***************************************************************************)
(* Properties of sendEmail (checked under SpecMail)                        *)
(***************************************************************************)
\* C19: a sendEmail call made while its provider is not configured sends
\* nothing, logs a warning and does not throw, whichever of the two
\* implementations serves it and whatever its input.
C19_UnconfiguredIsNoOp ==
    \A i \in 1..Len(mailCalls) :
        ~mailCalls[i].configured =>
            /\ ~mailCalls[i].threw
            /\ ~mailCalls[i].sent
            /\ mailCalls[i].warned

(***************************************************************************)
(* Properties of calls made with no user logged in (checked under SpecSolo) *)
(***************************************************************************)
\* C20: an addTask, updateTask, deleteTask or addComment call made while no
\* user is logged in has thrown its error, and has written no document and
\* no log entry, uploaded no file and attempted no email.
C20_UnauthenticatedThrowsBeforeWrite ==
    \A s \in Sessions :
        (call[s].op # "none" /\ call[s].user = null) =>
            /\ call[s].pc = "threw"
            /\ call[s].error \in {"User not logged in", "User not authenticated."}
            /\ ~call[s].wrote
            /\ call[s].logged = 0
            /\ ~call[s].logFailed
            /\ call[s].uploads = <<>>
            /\ call[s].attachmentComments = <<>>
            /\ call[s].sent = <<>>

\* addTask was called with attachments and assignees from a page that was
\* open when the user logged out
C20_Witness ==
    \E s \in Sessions :
        /\ call[s].op = "addTask"
        /\ call[s].user = null
        /\ call[s].data.attachments # <<>>
        /\ call[s].data.assigneeIds # <<>>
        /\ call[s].pc = "threw"
        /\ tasks = [id \in TaskIds |-> null]
        /\ logs = <<>>

(***************************************************************************)
(* Properties of who may change a task (checked under SpecTabs, SpecDetail) *)
(***************************************************************************)
\* the call of session s is an edit of the core fields or a deletion
CoreChange(s) ==
    \/ call[s].op = "deleteTask"
    \/ call[s].op = "updateTask" /\ "title" \in DOMAIN call[s].data

\* C21: every updateTask call that wrote title, description, assigneeIds or
\* deadline, and every deleteTask call that removed a task, was made by the
\* logged-in user whose id is the task's assignerId.
C21_CoreChangeByAssignerOnly ==
    \A s \in Sessions :
        (CoreChange(s) /\ call[s].wrote) =>
            /\ call[s].user # null
            /\ call[s].originalTask # null
            /\ call[s].user.id = call[s].originalTask.assignerId

\* the call of session s is a progress save that changed the stored progress
ProgressChanged(s) ==
    /\ call[s].op = "updateTask"
    /\ "progress" \in DOMAIN call[s].data
    /\ call[s].wrote
    /\ call[s].originalTask # null
    /\ call[s].originalTask.progress # call[s].data.progress

\* C22: every updateTask call that changed a task's progress was made by a
\* logged-in user whose id is in the task's assigneeIds.
C22_ProgressByAssigneeOnly ==
    \A s \in Sessions :
        ProgressChanged(s) =>
            /\ call[s].user # null
            /\ Includes(assigneeIdsOrEmpty(call[s].originalTask), call[s].user.id)

(***************************************************************************)
(* Properties of the sorted task list (checked under SpecSort)             *)
(***************************************************************************)
\* list a holds the elements of list b, each once, in some order
Permutation(a, b) ==
    /\ Len(a) = Len(b)
    /\ Range(a) = Range(b)
    /\ \A i, j \in 1..Len(a) : i # j => a[i] # a[j]

\* C23 as stated: under every sort option the displayed list is a
\* permutation of the list getTasks returned.
C23_EverySortIsPermutation ==
    shown # null => Permutation(shown.tasks, listed.tasks)

\* C23: under every sort option but "deadline_crossed" the displayed list is
\* a permutation of the list getTasks returned; under "deadline_crossed" it
\* holds, each once, exactly the returned tasks whose deadline is before now
\* and whose status is not "Completed".
C23_SortKeepsOrFilters ==
    shown # null =>
        IF sortBy = "deadline_crossed"
        THEN Permutation(shown.tasks,
                         SelectSeq(listed.tasks, LAMBDA t : crossed(t, shown.now)))
        ELSE Permutation(shown.tasks, listed.tasks)

\* a list of two tasks was put in another order by a sort option
C23_Witness ==
    /\ shown # null
    /\ sortBy \notin {"recent", "deadline_crossed"}
    /\ Len(listed.tasks) = 2
    /\ shown.tasks = <<listed.tasks[2], listed.tasks[1]>>

(***************************************************************************)
(* Properties of the stored tasks (checked under Spec, SpecDetail)         *)
(***************************************************************************)
\* C24: every stored task has status "To Do" when its progress is 0,
\* "In Progress" when its progress is between 0 and 100, and "Completed"
\* when its progress is 100.
C24_StatusFollowsProgress ==
    \A id \in TaskIds :
        tasks[id] # null =>
            /\ tasks[id].progress = 0 => tasks[id].status = "To Do"
            /\ (0 < tasks[id].progress /\ tasks[id].progress < 100) =>
                  tasks[id].status = "In Progress"
            /\ tasks[id].progress = 100 => tasks[id].status = "Completed"

\* a task added by addTask was brought to progress 100 by a progress save
C24_Witness ==
    \E id \in TaskIds, s \in Sessions :
        /\ tasks[id] # null
        /\ tasks[id].progress = 100
        /\ call[s].op = "updateTask"
        /\ call[s].taskId = id
        /\ call[s].wrote
        /\ "progress" \in DOMAIN call[s].data

(***************************************************************************)
(* Properties of the user directory cache (checked under SpecCache)        *)
(***************************************************************************)
\* C25: in one process the user collection is fetched and the cache
\* assigned at most once, also when calls start before the first fetch has
\* completed, and no call that starts with the cache populated reads the
\* store.
C25_CacheAssignedOnce ==
    /\ fetches.assigns <= 1
    /\ fetches.late = 0
    /\ \A c \in Callers :
          (userCall[c].pc = "done" /\ populated(userCall[c].startCache)) => ~userCall[c].read

\* C30: a getUsers call whose read of the store failed returned the empty
\* list (a getUser call null) and left the cache as it was; a call that
\* started while the cache was unpopulated has read the store; and the cache
\* is populated only by a read that succeeded.
C30_FailedReadNotCached ==
    /\ \A c \in Callers :
          /\ (userCall[c].pc = "done" /\ userCall[c].readFailed) =>
                /\ userCall[c].result = IF userCall[c].op = "getUsers" THEN <<>> ELSE null
                /\ userCall[c].cacheAfter = userCall[c].cacheBefore
          /\ (userCall[c].pc = "done" /\ userCall[c].id # NoId
              /\ ~populated(userCall[c].startCache)) => userCall[c].read
          /\ (userCall[c].pc = "done" /\ userCall[c].op = "getUsers"
              /\ ~populated(userCall[c].startCache)) => userCall[c].read
    /\ populated(allUsersCache) => fetches.assigns >= 1

\* a getUsers call failed to read the store, and the call after it read the
\* store again and populated the cache
C30_Witness ==
    \E c, d \in Callers :
        /\ c # d
        /\ userCall[c].pc = "done" /\ userCall[c].op = "getUsers"
        /\ userCall[c].readFailed
        /\ userCall[c].cacheAfter = null
        /\ userCall[d].pc = "done" /\ userCall[d].read /\ ~userCall[d].readFailed
        /\ fetches.reads = 2
        /\ fetches.assigns = 1
        /\ populated(allUsersCache)

\* C26: every stored task has at least one assignee, and an addTask call
\* made with an empty assigneeIds was rejected and wrote nothing.
C26_AssigneesNeverEmpty ==
    /\ \A id \in TaskIds : tasks[id] # null => assigneeIdsOrEmpty(tasks[id]) # <<>>
    /\ \A s \in Sessions :
          (call[s].op = "addTask" /\ call[s].pc # "setDoc" /\ call[s].data.assigneeIds = <<>>)
              => (call[s].pc = "threw" /\ ~call[s].wrote)

\* sequence a is the beginning of sequence b
IsPrefix(a, b) == Len(a) <= Len(b) /\ SubSeq(b, 1, Len(a)) = a

C28_DeleteLogsTitleReadBefore ==
    \A s \in Sessions :
        call[s].op = "deleteTask" =>
            /\ call[s].pc = "returned" =>
                  /\ call[s].originalTask # null
                  /\ call[s].logged = 1
                  /\ \E i \in 1..Len(logs) :
                        /\ logs[i].action = "deleted task"
                        /\ logs[i].taskId = call[s].taskId
                        /\ logs[i].taskTitle = call[s].originalTask.title
                        /\ logs[i].userId = call[s].user.id
            /\ call[s].logged > 0 => tasks[call[s].taskId] = null
            /\ call[s].pc \in {"getTask", "deleteDoc"} => call[s].logged = 0

\* a deleteTask call returned after the title of the task had been edited
C28_Witness ==
    \E s \in Sessions :
        /\ call[s].op = "deleteTask"
        /\ call[s].pc = "returned"
        /\ call[s].originalTask.title = "b"
        /\ logs[Len(logs)].action = "deleted task"
        /\ logs[Len(logs)].taskTitle = "b"

\* C29: no step brings back a task that was removed, and an updateTask or
\* addComment call whose write found no document has thrown without
\* writing a task or a log entry.
C29_DeletedStaysDeleted ==
    [][/\ \A id \in TaskIds : (id < nextTaskId /\ tasks[id] = null) => tasks'[id] = null
       /\ \A s \in Sessions :
             (call'[s].op \in {"updateTask", "addComment"}
              /\ call'[s].error = "No document to update") =>
                 /\ call'[s].pc = "threw"
                 /\ ~call'[s].wrote
                 /\ call'[s].logged = 0
                 /\ tasks'[call'[s].taskId] = null]_vars

\* an addComment call that was running while deleteTask removed the task
\* found no document to write to
C29_Witness ==
    \E s, r \in Sessions :
        /\ call[s].op = "addComment"
        /\ call[s].error = "No document to update"
        /\ call[r].op = "deleteTask"
        /\ call[r].wrote
        /\ tasks[call[s].taskId] = null

====
